---- MODULE Spec2Model ----
(***************************************************************************)
(* Model of the hut data model of chamannas (src/src/model.py, HutsModel), *)
(* the controller commands that drive it (src/src/controller.py) and the   *)
(* shape of the results produced by the web client (src/src/web_request.py)*)
(*                                                                         *)
(* Representation of Python values:                                        *)
(*   - None is the string "None"; an optional number is a sequence of      *)
(*     length 0 (None) or 1 (the number);                                  *)
(*   - a date is a day number (0 is today, _DAY_DELTA is 1);               *)
(*   - a list is a sequence, a set is a set, a dict whose iteration order  *)
(*     is never observed is a function, the filter-key dicts (iterated by  *)
(*     _apply_all_filters) are sequences of [key, parameters] items in     *)
(*     insertion order;                                                    *)
(*   - strings that are compared by order (names, countries, labels) are   *)
(*     integers giving their rank; floats are integers (metres, hundredths *)
(*     of a degree).                                                       *)
(***************************************************************************)
EXTENDS Integers, Sequences, FiniteSets, TLC

VARIABLES
    model,      \* the fields of the HutsModel instance
    thread,     \* the worker thread started by _get_results_for_date
    clock,      \* datetime.datetime.now(), advanced by every web request
    ncommands,  \* number of controller commands issued so far
    hut_info,   \* the last dictionary returned by HutsModel.get_hut_info
    loader,     \* the run of HutsModel._load_huts_dictionary over the catalog file
    tiles,      \* the class attributes of _TilesCluster and the current cluster
    navmap,     \* the fields of the maps: a NavigableMap and the zoom of a HutMap
    pool        \* the threads started by the commands, each with its position

vars == <<model, thread, clock, ncommands, hut_info, loader, tiles, navmap, pool>>

----------------------------------------------------------------------------
(* Bounds of the model *)

\* free beds of one room type on one date are drawn from 0..MaxBeds
MaxBeds == 2
\* request dates start on a day of 1..MaxDate
MaxDate == 2
\* nights covered by one web request and largest number of days (MAX_NIGHTS)
MaxNights == 2
\* web requests performed in one behaviour (every request advances the clock)
MaxClock == 2
\* controller commands issued in one behaviour
MaxCommands == 3

----------------------------------------------------------------------------
(* Python values *)

None == "None"
NoValue == << >>
Some(v) == <<v>>
IsNone(o) == Len(o) = 0
Val(o) == o[1]

EmptyDict == << >>

Range(s) == {s[i] : i \in 1..Len(s)}

\* list.copy() / list(...)
Copy(list) == list

\* x in list
In(x, list) == \E i \in 1..Len(list) : list[i] = x

\* list.remove(x): removes the first occurrence
Remove(list, x) ==
    LET i == CHOOSE i \in 1..Len(list) : list[i] = x /\ \A j \in 1..(i - 1) : list[j] # x
    IN  SubSeq(list, 1, i - 1) \o SubSeq(list, i + 1, Len(list))

\* min(...) of a non-empty collection of numbers
Min(S) == CHOOSE x \in S : \A y \in S : x <= y

Min2(a, b) == IF a <= b THEN a ELSE b

Max2(a, b) == IF a >= b THEN a ELSE b

\* sum of the values of a dict
RECURSIVE SumValues(_)
SumValues(f) ==
    IF DOMAIN f = {} THEN 0
    ELSE LET k == CHOOSE k \in DOMAIN f : TRUE
         IN  f[k] + SumValues([x \in DOMAIN f \ {k} |-> f[x]])

\* every order in which the elements of a set can be iterated
SetOrders(S) ==
    {s \in [1..Cardinality(S) -> S] : \A i, j \in 1..Cardinality(S) : i # j => s[i] # s[j]}

\* sorted() sorting in ascending order and then reversing the list when reverse is
\* set: items with equal keys end in the opposite of the order they have in list
Sorted_then_reversed(list, keys, reverse) ==
    LET n == Len(list)
        Before(i, j) ==
            \/ (IF reverse THEN keys[list[i]] > keys[list[j]] ELSE keys[list[i]] < keys[list[j]])
            \/ (keys[list[i]] = keys[list[j]] /\ (IF reverse THEN i > j ELSE i < j))
        Pos(i) == 1 + Cardinality({j \in 1..n : Before(j, i)})
    IN  [p \in 1..n |-> list[CHOOSE i \in 1..n : Pos(i) = p]]

\* sorted(list, key=..., reverse=reverse), keys[x] being the key of item x: stable in
\* both directions, items with equal keys keep the order they have in list
Sorted(list, keys, reverse) ==
    LET n == Len(list)
        Before(i, j) ==
            \/ (IF reverse THEN keys[list[i]] > keys[list[j]] ELSE keys[list[i]] < keys[list[j]])
            \/ (keys[list[i]] = keys[list[j]] /\ i < j)
        Pos(i) == 1 + Cardinality({j \in 1..n : Before(j, i)})
    IN  [p \in 1..n |-> list[CHOOSE i \in 1..n : Pos(i) = p]]

----------------------------------------------------------------------------
(* Constants of the program *)

ROOM_TYPES == <<"single", "double", "shared", "dormitory">>

RoomTypes == Range(ROOM_TYPES)

_DAY_DELTA == 1

\* _DEFAULT_REFERENCE_LOCATION, in hundredths of a degree
_DEFAULT_REFERENCE_LOCATION == [lat |-> 4810, lon |-> -1160]

\* HutStatus
NO_REQUEST == "NO_REQUEST"
NO_RESPONSE == "NO_RESPONSE"
CLOSED == "CLOSED"
NOT_AVAILABLE == "NOT_AVAILABLE"
AVAILABLE == "AVAILABLE"

\* _ascending_order_for_key with every key ascending
_ascending_order_for_key_all_ascending ==
    [key \in {"name", "country", "region", "mountain_range", "self_catering", "height",
              "distance", "data_requested", "response", "open", "available"} \cup RoomTypes |-> TRUE]

\* _ascending_order_for_key
_ascending_order_for_key ==
    [key \in {"name", "country", "region", "mountain_range", "self_catering", "height",
              "distance", "data_requested", "response", "open", "available"} \cup RoomTypes |->
        IF key = "available" \/ key \in RoomTypes THEN FALSE ELSE TRUE]

SortKeys == DOMAIN _ascending_order_for_key

----------------------------------------------------------------------------
(* The hut catalog: the content of huts.txt as loaded by _load_huts_dictionary.  *)
(* Names, countries, regions and mountain ranges are ranks in string order,      *)
(* coordinates are hundredths of a degree, heights are metres.                   *)

\* list(self._huts_dictionary.keys()): the ids in the order of the file
HutIds == <<1, 2, 3>>

_huts_dictionary ==
    [index \in Range(HutIds) |->
        CASE index = 1 -> [name |-> 2, country |-> 1, region |-> 1, mountain_range |-> 1,
                           self_catering |-> 0, lat |-> 4600, lon |-> 800, height |-> 2000]
          [] index = 2 -> [name |-> 1, country |-> 1, region |-> 2, mountain_range |-> 1,
                           self_catering |-> 1, lat |-> 4600, lon |-> 801, height |-> 2500]
          [] index = 3 -> [name |-> 3, country |-> 2, region |-> 1, mountain_range |-> 2,
                           self_catering |-> 0, lat |-> 4700, lon |-> 1100, height |-> 2500]]

\* i18n.regions_labels[...].casefold() and i18n.mountain_ranges_labels[...].casefold():
\* the rank of the case-folded label of a code (the labels sort opposite to the codes)
RegionsLabels(region) == 3 - region
MountainRangesLabels(mountain_range) == 3 - mountain_range

\* spherical_earth.distance, in metres, tabulated on the points of the model
distance(lat1, lon1, lat2, lon2) ==
    CASE <<lat1, lon1>> = <<lat2, lon2>> -> 0
      [] <<lat1, lon1, lat2, lon2>> = <<4600, 800, 4810, -1160>> -> 1499001
      [] <<lat1, lon1, lat2, lon2>> = <<4600, 801, 4810, -1160>> -> 1499743
      [] <<lat1, lon1, lat2, lon2>> = <<4700, 1100, 4810, -1160>> -> 1694422
      [] <<lat1, lon1, lat2, lon2>> = <<4600, 800, 4700, 1100>> -> 255107
      [] <<lat1, lon1, lat2, lon2>> = <<4600, 801, 4700, 1100>> -> 254419
      [] <<lat1, lon1, lat2, lon2>> = <<4600, 800, 4600, 801>> -> 773
      [] <<lat1, lon1, lat2, lon2>> = <<4600, 801, 4600, 800>> -> 773
      [] <<lat1, lon1, lat2, lon2>> = <<4700, 1100, 4600, 800>> -> 255107
      [] <<lat1, lon1, lat2, lon2>> = <<4700, 1100, 4600, 801>> -> 254419

----------------------------------------------------------------------------
(* Results of the web requests.  A result is                                     *)
(*   [error, warning, requested_dates, request_time, places]                     *)
(* where places maps a date to a dict from room type (or "closed") to free beds. *)

\* request_dates: [self._request_date + i * _DAY_DELTA for i in range(self._number_days)]
request_dates(m) == [i \in 1..m.number_days |-> m.request_date + (i - 1) * _DAY_DELTA]

\* the dates covered by one web request: start_date + j * _DAY_DELTA for j in range(_max_nights)
BookDates(start_date) == {start_date + j * _DAY_DELTA : j \in 0..(MaxNights - 1)}

\* _check_open returning True as soon as one of the dates is not closed
_check_open_any(results_dictionary, index, dates) ==
    IF index \notin DOMAIN results_dictionary THEN FALSE
    ELSE IF results_dictionary[index].error # None THEN FALSE
    ELSE LET available_dates == DOMAIN results_dictionary[index].places
             check_dates == Range(dates)
         IN  IF ~(check_dates \subseteq available_dates) THEN FALSE
             ELSE \E date \in check_dates :
                      "closed" \notin DOMAIN results_dictionary[index].places[date]

_check_open(results_dictionary, index, dates) ==
    IF index \notin DOMAIN results_dictionary THEN FALSE
    ELSE IF results_dictionary[index].error # None THEN FALSE
    ELSE LET available_dates == DOMAIN results_dictionary[index].places
             check_dates == Range(dates)
         IN  IF ~(check_dates \subseteq available_dates) THEN FALSE
             ELSE \A date \in check_dates :
                      "closed" \notin DOMAIN results_dictionary[index].places[date]

\* min() of an empty sequence raises ValueError
ValueError == "ValueError"

\* _available_places returning the sum over the dates of the totals
_available_places_sum(results_dictionary, index, dates) ==
    IF index \notin DOMAIN results_dictionary THEN 0
    ELSE IF results_dictionary[index].error # None THEN 0
    ELSE LET available_dates == DOMAIN results_dictionary[index].places
             check_dates == Range(dates)
             available_places_for_date ==
                 [date \in check_dates |-> SumValues(results_dictionary[index].places[date])]
         IN  IF ~(check_dates \subseteq available_dates) THEN 0
             ELSE SumValues(available_places_for_date)

_available_places(results_dictionary, index, dates) ==
    IF index \notin DOMAIN results_dictionary THEN 0
    ELSE IF results_dictionary[index].error # None THEN 0
    ELSE LET available_dates == DOMAIN results_dictionary[index].places
             check_dates == Range(dates)
             available_places_for_date ==
                 [date \in check_dates |-> SumValues(results_dictionary[index].places[date])]
         IN  IF ~(check_dates \subseteq available_dates) THEN 0
             ELSE IF check_dates = {} THEN ValueError
             ELSE Min({available_places_for_date[date] : date \in check_dates})

\* the loop "for date in check_dates" of _available_places_for_room, visit being the
\* dates still to come in the iteration order of the set
RECURSIVE RoomLoop(_, _, _)
RoomLoop(places, visit, available_places) ==
    IF Len(visit) = 0 THEN available_places
    ELSE LET available_places_for_date == places[Head(visit)]
             updated ==
                 IF DOMAIN available_places = {} THEN available_places_for_date
                 ELSE [room \in DOMAIN available_places |->
                          IF room \notin DOMAIN available_places_for_date THEN 0
                          ELSE Min2(available_places_for_date[room], available_places[room])]
         IN  RoomLoop(places, Tail(visit), updated)

\* _available_places_for_room without the check that every date is covered: the
\* dates that are not covered are skipped
_available_places_for_room_skip(results_dictionary, index, visit) ==
    IF index \notin DOMAIN results_dictionary THEN EmptyDict
    ELSE IF results_dictionary[index].error # None THEN EmptyDict
    ELSE LET IsAvailable(date) == date \in DOMAIN results_dictionary[index].places
         IN  RoomLoop(results_dictionary[index].places, SelectSeq(visit, IsAvailable), EmptyDict)

\* visit: the dates in the order in which the loop iterates set(dates)
_available_places_for_room(results_dictionary, index, visit) ==
    IF index \notin DOMAIN results_dictionary THEN EmptyDict
    ELSE IF results_dictionary[index].error # None THEN EmptyDict
    ELSE LET available_dates == DOMAIN results_dictionary[index].places
             check_dates == Range(visit)
         IN  IF ~(check_dates \subseteq available_dates) THEN EmptyDict
             ELSE RoomLoop(results_dictionary[index].places, visit, EmptyDict)

_detailed_places(results_dictionary, index, dates) ==
    IF index \notin DOMAIN results_dictionary THEN EmptyDict
    ELSE IF results_dictionary[index].error # None THEN EmptyDict
    ELSE LET check_dates == Range(dates)
         IN  [date \in check_dates |->
                 IF date \in DOMAIN results_dictionary[index].places
                 THEN results_dictionary[index].places[date]
                 ELSE EmptyDict]

\* _get_hut_info_for_dates testing data_requested before response
_get_hut_info_for_dates_request_first(m, index, dates) ==
    LET data_requested ==
            /\ index \in DOMAIN m.results_dictionary
            /\ \A i \in 1..Len(dates) : dates[i] \in m.results_dictionary[index].requested_dates
        response ==
            IF index \in DOMAIN m.results_dictionary
            THEN m.results_dictionary[index].error = None
            ELSE TRUE
        distance_from_ref ==
            distance(_huts_dictionary[index].lat, _huts_dictionary[index].lon,
                     m.reference_location.lat, m.reference_location.lon)
        is_open == _check_open(m.results_dictionary, index, dates)
        available_places == _available_places(m.results_dictionary, index, dates)
        available_places_for_room == _available_places_for_room(m.results_dictionary, index, m.set_order)
        detailed_places == _detailed_places(m.results_dictionary, index, dates)
        status ==
            IF ~data_requested THEN NO_REQUEST
            ELSE IF ~response THEN NO_RESPONSE
            ELSE IF ~is_open THEN CLOSED
            ELSE IF available_places = 0 THEN NOT_AVAILABLE
            ELSE AVAILABLE
    IN  [index |-> index,
         dates |-> dates,
         distance |-> distance_from_ref,
         data_requested |-> data_requested,
         response |-> response,
         open |-> is_open,
         available |-> available_places,
         detailed_places |-> detailed_places,
         status |-> status,
         rooms |-> [room \in RoomTypes |->
                       IF room \in DOMAIN available_places_for_room
                       THEN Some(available_places_for_room[room])
                       ELSE NoValue]]

\* m.set_order is the order in which this process iterates set(request_dates)
_get_hut_info_for_dates(m, index, dates) ==
    LET data_requested ==
            /\ index \in DOMAIN m.results_dictionary
            /\ \A i \in 1..Len(dates) : dates[i] \in m.results_dictionary[index].requested_dates
        response ==
            IF index \in DOMAIN m.results_dictionary
            THEN m.results_dictionary[index].error = None
            ELSE TRUE
        distance_from_ref ==
            distance(_huts_dictionary[index].lat, _huts_dictionary[index].lon,
                     m.reference_location.lat, m.reference_location.lon)
        is_open == _check_open(m.results_dictionary, index, dates)
        available_places == _available_places(m.results_dictionary, index, dates)
        available_places_for_room == _available_places_for_room(m.results_dictionary, index, m.set_order)
        detailed_places == _detailed_places(m.results_dictionary, index, dates)
        status ==
            IF ~response THEN NO_RESPONSE
            ELSE IF ~data_requested THEN NO_REQUEST
            ELSE IF ~is_open THEN CLOSED
            ELSE IF available_places = 0 THEN NOT_AVAILABLE
            ELSE AVAILABLE
    IN  [index |-> index,
         dates |-> dates,
         distance |-> distance_from_ref,
         data_requested |-> data_requested,
         response |-> response,
         open |-> is_open,
         available |-> available_places,
         detailed_places |-> detailed_places,
         status |-> status,
         rooms |-> [room \in RoomTypes |->
                       IF room \in DOMAIN available_places_for_room
                       THEN Some(available_places_for_room[room])
                       ELSE NoValue]]

----------------------------------------------------------------------------
(* Filters.  The parameters of a filter are [value, min, max], each optional. *)

NoParameters == [value |-> NoValue, min |-> NoValue, max |-> NoValue]
ValueParameters(v) == [value |-> Some(v), min |-> NoValue, max |-> NoValue]
MinMaxParameters(lo, hi) == [value |-> NoValue, min |-> lo, max |-> hi]

\* key in filter_keys
HasKey(filter_keys, key) == \E i \in 1..Len(filter_keys) : filter_keys[i].key = key

\* filter_keys[key] = parameters, for a key that is not in the dict
PutKey(filter_keys, key, parameters) ==
    Append(filter_keys, [key |-> key, parameters |-> parameters])

\* filter_keys.pop(key)
PopKey(filter_keys, key) ==
    LET Other(item) == item.key # key
    IN  SelectSeq(filter_keys, Other)

_filter_by_country(original_list, filter_country) ==
    LET Keep(index) == _huts_dictionary[index].country = filter_country
    IN  SelectSeq(original_list, Keep)

_filter_by_region(original_list, filter_region) ==
    LET Keep(index) == _huts_dictionary[index].region = filter_region
    IN  SelectSeq(original_list, Keep)

_filter_by_mountain_range(original_list, filter_mountain_range) ==
    LET Keep(index) == _huts_dictionary[index].mountain_range = filter_mountain_range
    IN  SelectSeq(original_list, Keep)

_filter_by_height(original_list, filter_height_min, filter_height_max) ==
    LET lo == IF IsNone(filter_height_min) THEN 0 ELSE Val(filter_height_min)
        hi == IF IsNone(filter_height_max) THEN 10000 ELSE Val(filter_height_max)
        Keep(index) == lo <= _huts_dictionary[index].height /\ _huts_dictionary[index].height <= hi
    IN  SelectSeq(original_list, Keep)

_filter_by_self_catering(original_list, filter_self_catering) ==
    LET Keep(index) == _huts_dictionary[index].self_catering = filter_self_catering
    IN  SelectSeq(original_list, Keep)

\* the distances of the filter are kilometres
_filter_by_distance(original_list, filter_distance_min, filter_distance_max, lat_ref, lon_ref) ==
    LET lo == IF IsNone(filter_distance_min) THEN 0 ELSE Val(filter_distance_min)
        hi == IF IsNone(filter_distance_max) THEN 20000 ELSE Val(filter_distance_max)
        Keep(index) ==
            LET d == distance(_huts_dictionary[index].lat, _huts_dictionary[index].lon,
                              lat_ref, lon_ref)
            IN  lo * 1000 <= d /\ d <= hi * 1000
    IN  SelectSeq(original_list, Keep)

_filter_by_response(m, original_list) ==
    LET Keep(index) ==
            ~(index \in DOMAIN m.results_dictionary /\ m.results_dictionary[index].error # None)
    IN  SelectSeq(original_list, Keep)

_filter_by_open(m, original_list, dates) ==
    LET Skip(index) ==
            /\ index \in DOMAIN m.results_dictionary
            /\ m.results_dictionary[index].error = None
            /\ \A i \in 1..Len(dates) : dates[i] \in m.results_dictionary[index].requested_dates
            /\ ~_check_open(m.results_dictionary, index, dates)
        Keep(index) == ~Skip(index)
    IN  SelectSeq(original_list, Keep)

_filter_by_available(m, original_list, filter_available_min, filter_available_max, dates) ==
    LET lo == IF IsNone(filter_available_min) THEN 0 ELSE Val(filter_available_min)
        hi == IF IsNone(filter_available_max) THEN 1000 ELSE Val(filter_available_max)
        Keep(index) ==
            LET available_places == _available_places(m.results_dictionary, index, dates)
            IN  lo <= available_places /\ available_places <= hi
    IN  SelectSeq(original_list, Keep)

_filter_by_room(m, original_list, room, filter_available_min, filter_available_max, dates) ==
    LET lo == IF IsNone(filter_available_min) THEN 0 ELSE Val(filter_available_min)
        hi == IF IsNone(filter_available_max) THEN 1000 ELSE Val(filter_available_max)
        Keep(index) ==
            LET available_places_for_room ==
                    _available_places_for_room(m.results_dictionary, index, m.set_order)
                available_places ==
                    IF room \in DOMAIN available_places_for_room
                    THEN available_places_for_room[room] ELSE 0
            IN  lo <= available_places /\ available_places <= hi
    IN  SelectSeq(original_list, Keep)

_filter_by(m, to_filter, key, parameters) ==
    CASE key = "country" -> _filter_by_country(to_filter, Val(parameters.value))
      [] key = "region" -> _filter_by_region(to_filter, Val(parameters.value))
      [] key = "mountain_range" -> _filter_by_mountain_range(to_filter, Val(parameters.value))
      [] key = "height" -> _filter_by_height(to_filter, parameters.min, parameters.max)
      [] key = "self_catering" -> _filter_by_self_catering(to_filter, Val(parameters.value))
      [] key = "distance" ->
            _filter_by_distance(to_filter, parameters.min, parameters.max,
                                m.reference_location.lat, m.reference_location.lon)
      [] key = "response" -> _filter_by_response(m, to_filter)
      [] key = "open" -> _filter_by_open(m, to_filter, request_dates(m))
      [] key = "available" ->
            _filter_by_available(m, to_filter, parameters.min, parameters.max, request_dates(m))
      [] key \in RoomTypes ->
            _filter_by_room(m, to_filter, key, parameters.min, parameters.max, request_dates(m))
      [] OTHER -> to_filter

\* the filters are applied in the order of the dict
RECURSIVE _apply_all_filters(_, _, _)
_apply_all_filters(m, to_filter, filter_keys) ==
    IF Len(filter_keys) = 0 THEN Copy(to_filter)
    ELSE _apply_all_filters(m,
                            _filter_by(m, to_filter, Head(filter_keys).key, Head(filter_keys).parameters),
                            Tail(filter_keys))

----------------------------------------------------------------------------
(* Sorting *)

_sort_by_name(original_list, ascending) ==
    Sorted(original_list, [index \in Range(HutIds) |-> _huts_dictionary[index].name], ~ascending)

_sort_by_country(original_list, ascending) ==
    Sorted(original_list, [index \in Range(HutIds) |-> _huts_dictionary[index].country], ~ascending)

_sort_by_region(original_list, ascending) ==
    Sorted(original_list,
           [index \in Range(HutIds) |-> RegionsLabels(_huts_dictionary[index].region)],
           ~ascending)

_sort_by_mountain_range(original_list, ascending) ==
    Sorted(original_list,
           [index \in Range(HutIds) |-> MountainRangesLabels(_huts_dictionary[index].mountain_range)],
           ~ascending)

_sort_by_height(original_list, ascending) ==
    Sorted(original_list, [index \in Range(HutIds) |-> _huts_dictionary[index].height], ~ascending)

_sort_by_self_catering(original_list, ascending) ==
    Sorted(original_list,
           [index \in Range(HutIds) |-> _huts_dictionary[index].self_catering],
           ~ascending)

_sort_by_distance(original_list, lat_ref, lon_ref, ascending) ==
    Sorted(original_list,
           [index \in Range(HutIds) |->
               distance(_huts_dictionary[index].lat, _huts_dictionary[index].lon, lat_ref, lon_ref)],
           ~ascending)

_sort_by_available(m, original_list, dates, ascending) ==
    Sorted(original_list,
           [index \in Range(HutIds) |-> _available_places(m.results_dictionary, index, dates)],
           ~ascending)

_sort_by_room(m, original_list, room, dates, ascending) ==
    Sorted(original_list,
           [index \in Range(HutIds) |->
               LET available_places_for_room ==
                       _available_places_for_room(m.results_dictionary, index, m.set_order)
               IN  IF room \in DOMAIN available_places_for_room
                   THEN available_places_for_room[room] ELSE -1],
           ~ascending)

_sort_by(m, to_sort, key, ascending) ==
    CASE key = "name" -> _sort_by_name(to_sort, ascending)
      [] key = "country" -> _sort_by_country(to_sort, ascending)
      [] key = "region" -> _sort_by_region(to_sort, ascending)
      [] key = "mountain_range" -> _sort_by_mountain_range(to_sort, ascending)
      [] key = "height" -> _sort_by_height(to_sort, ascending)
      [] key = "self_catering" -> _sort_by_self_catering(to_sort, ascending)
      [] key = "distance" ->
            _sort_by_distance(to_sort, m.reference_location.lat, m.reference_location.lon, ascending)
      [] key = "available" -> _sort_by_available(m, to_sort, request_dates(m), ascending)
      [] key \in RoomTypes -> _sort_by_room(m, to_sort, key, request_dates(m), ascending)
      [] OTHER -> Copy(to_sort)

----------------------------------------------------------------------------
(* The operations of HutsModel: each maps the fields m of the instance to the    *)
(* fields after the call.                                                        *)

sort_displayed(m) ==
    [m EXCEPT !.displayed =
        _sort_by(m, m.displayed, m.sort_displayed_key, m.sort_displayed_ascending)]

sort_selected(m) ==
    [m EXCEPT !.selected =
        _sort_by(m, m.selected, m.sort_selected_key, m.sort_selected_ascending)]

\* list(self._huts_dictionary.keys()) of the catalog the model holds
_display_all(m) == [m EXCEPT !.displayed = m.huts]

_display_all_selected(m) == [m EXCEPT !.selected = Copy(m.all_selected)]

_filter_and_sort_displayed(m) ==
    LET m1 == _display_all(m)
        m2 == [m1 EXCEPT !.displayed =
                  _apply_all_filters(m1, m1.displayed, m1.filter_displayed_keys)]
    IN  sort_displayed(m2)

_filter_and_sort_selected(m) ==
    LET m1 == [m EXCEPT !.selected =
                  _apply_all_filters(m, m.all_selected, m.filter_selected_keys)]
    IN  sort_selected(m1)

\* filter_displayed_by removing an active key without recreating the list
filter_displayed_by_no_recreate(m, key, parameters) ==
    IF ~HasKey(m.filter_displayed_keys, key)
    THEN [m EXCEPT !.displayed = _filter_by(m, m.displayed, key, parameters),
                   !.filter_displayed_keys = PutKey(m.filter_displayed_keys, key, parameters)]
    ELSE [m EXCEPT !.filter_displayed_keys = PopKey(m.filter_displayed_keys, key)]

filter_displayed_by(m, key, parameters) ==
    IF ~HasKey(m.filter_displayed_keys, key)
    THEN [m EXCEPT !.displayed = _filter_by(m, m.displayed, key, parameters),
                   !.filter_displayed_keys = PutKey(m.filter_displayed_keys, key, parameters)]
    ELSE _filter_and_sort_displayed(
             [m EXCEPT !.filter_displayed_keys = PopKey(m.filter_displayed_keys, key)])

filter_selected_by(m, key, parameters) ==
    IF ~HasKey(m.filter_selected_keys, key)
    THEN [m EXCEPT !.selected = _filter_by(m, m.selected, key, parameters),
                   !.filter_selected_keys = PutKey(m.filter_selected_keys, key, parameters)]
    ELSE _filter_and_sort_selected(
             [m EXCEPT !.filter_selected_keys = PopKey(m.filter_selected_keys, key)])

sort_displayed_by(m, key) ==
    sort_displayed(
        IF key = m.sort_displayed_key
        THEN [m EXCEPT !.sort_displayed_ascending = ~m.sort_displayed_ascending]
        ELSE [m EXCEPT !.sort_displayed_key = key,
                       !.sort_displayed_ascending = _ascending_order_for_key[key]])

sort_selected_by(m, key) ==
    sort_selected(
        IF key = m.sort_selected_key
        THEN [m EXCEPT !.sort_selected_ascending = ~m.sort_selected_ascending]
        ELSE [m EXCEPT !.sort_selected_key = key,
                       !.sort_selected_ascending = _ascending_order_for_key[key]])

add_to_selected(m, index) ==
    _filter_and_sort_selected(
        IF In(index, m.huts) /\ ~In(index, m.all_selected)
        THEN [m EXCEPT !.all_selected = Append(m.all_selected, index)]
        ELSE m)

remove_from_selected(m, index) ==
    _filter_and_sort_selected(
        IF In(index, m.all_selected)
        THEN [m EXCEPT !.all_selected = Remove(m.all_selected, index)]
        ELSE m)

\* the loop "for index in self._displayed: self.add_to_selected(index)"
RECURSIVE AddEach(_, _)
AddEach(m, indexes) ==
    IF Len(indexes) = 0 THEN m
    ELSE AddEach(add_to_selected(m, Head(indexes)), Tail(indexes))

\* select_all adding every hut of the catalog
select_all_of_catalog(m) == AddEach(m, HutIds)

select_all(m) == AddEach(m, m.displayed)

clear_selected(m) == [m EXCEPT !.all_selected = << >>, !.selected = << >>]

check_in_window(index, lat_min, lat_max, lon_min, lon_max) ==
    LET lat == _huts_dictionary[index].lat
        lon == _huts_dictionary[index].lon
    IN  lat_min <= lat /\ lat <= lat_max /\ lon_min <= lon /\ lon <= lon_max

\* command_select_window in which 'select only' also adds the huts in the window
RECURSIVE command_select_window_adding(_, _, _, _, _, _, _)
command_select_window_adding(m, type, indexes, lat_min, lat_max, lon_min, lon_max) ==
    IF Len(indexes) = 0 THEN m
    ELSE LET index == Head(indexes)
             is_in_window == check_in_window(index, lat_min, lat_max, lon_min, lon_max)
             m1 == IF type \in {"select", "select only"} /\ is_in_window
                   THEN add_to_selected(m, index) ELSE m
             m2 == IF (type = "select only" /\ ~is_in_window) \/ (type = "deselect" /\ is_in_window)
                   THEN remove_from_selected(m1, index) ELSE m1
         IN  command_select_window_adding(m2, type, Tail(indexes), lat_min, lat_max, lon_min, lon_max)

\* the loop "for index in indexes" of Controller.command_select_window
RECURSIVE command_select_window(_, _, _, _, _, _, _)
command_select_window(m, type, indexes, lat_min, lat_max, lon_min, lon_max) ==
    IF Len(indexes) = 0 THEN m
    ELSE LET index == Head(indexes)
             is_in_window == check_in_window(index, lat_min, lat_max, lon_min, lon_max)
             m1 == IF type = "select" /\ is_in_window THEN add_to_selected(m, index) ELSE m
             m2 == IF (type = "select only" /\ ~is_in_window) \/ (type = "deselect" /\ is_in_window)
                   THEN remove_from_selected(m1, index) ELSE m1
         IN  command_select_window(m2, type, Tail(indexes), lat_min, lat_max, lon_min, lon_max)

\* order: the order in which the process iterates the set of the new request dates
update_dates(m, request_date, number_days, order) ==
    sort_selected(sort_displayed(
        [m EXCEPT !.request_date = request_date,
                  !.number_days = number_days,
                  !.set_order = order]))

set_reference_location(m, lat_ref, lon_ref) ==
    sort_selected(sort_displayed(
        IF -9000 < lat_ref /\ lat_ref < 9000 /\ -18000 < lon_ref /\ lon_ref < 18000
        THEN [m EXCEPT !.reference_location = [lat |-> lat_ref, lon |-> lon_ref]]
        ELSE m))

get_all_data_after_retrieve(m) == _filter_and_sort_selected(_filter_and_sort_displayed(m))

enable_retrieve(m, is_enabled) == [m EXCEPT !.retrieve_enabled = is_enabled]

get_hut_info(m, index) == _get_hut_info_for_dates(m, index, request_dates(m))

\* the merge replacing the places of the entry by the places of the new result
MergeResult_replace_places(results_dictionary, index, result) ==
    IF index \notin DOMAIN results_dictionary
    THEN (index :> result) @@ results_dictionary
    ELSE [results_dictionary EXCEPT ![index] =
             [error |-> result.error,
              warning |-> result.warning,
              requested_dates |-> @.requested_dates \cup result.requested_dates,
              request_time |-> result.request_time,
              places |-> result.places]]

\* results[index] merged into the dictionary, for one index
MergeResult(results_dictionary, index, result) ==
    IF index \notin DOMAIN results_dictionary
    THEN (index :> result) @@ results_dictionary
    ELSE [results_dictionary EXCEPT ![index] =
             [error |-> result.error,
              warning |-> result.warning,
              requested_dates |-> @.requested_dates \cup result.requested_dates,
              request_time |-> result.request_time,
              places |-> result.places @@ @.places]]

\* _update_results_dictionary: the loop "for index, result in results.items()"
RECURSIVE _update_results_dictionary(_, _)
_update_results_dictionary(results_dictionary, results) ==
    IF DOMAIN results = {} THEN results_dictionary
    ELSE LET index == CHOOSE index \in DOMAIN results : TRUE
         IN  _update_results_dictionary(
                 MergeResult(results_dictionary, index, results[index]),
                 [i \in DOMAIN results \ {index} |-> results[i]])

----------------------------------------------------------------------------
(* State after HutsModel.__init__ with no preferences and no cached results:     *)
(* tomorrow is day 1, every hut is displayed, no hut is selected.  huts is the   *)
(* list of the keys of the _huts_dictionary that _load_huts_dictionary filled.   *)

InitModel ==
    [retrieve_enabled |-> TRUE,
     results_cancelled |-> FALSE,
     sort_displayed_key |-> None,
     sort_displayed_ascending |-> TRUE,
     sort_selected_key |-> None,
     sort_selected_ascending |-> TRUE,
     request_date |-> 0 + _DAY_DELTA,
     number_days |-> 1,
     set_order |-> <<0 + _DAY_DELTA>>,
     reference_location |-> _DEFAULT_REFERENCE_LOCATION,
     results_dictionary |-> EmptyDict,
     huts |-> HutIds,
     displayed |-> HutIds,
     all_selected |-> << >>,
     selected |-> << >>,
     filter_displayed_keys |-> << >>,
     filter_selected_keys |-> << >>]

IdleThread ==
    [pc |-> "idle", huts_list |-> << >>, done |-> 0, results |-> EmptyDict, start_date |-> 0,
     events |-> << >>]

NoHutInfo == [index |-> 0]

\* the catalog file has been read: no line is left to the loader
NoFile ==
    [lines |-> << >>, next |-> 1, _huts_dictionary |-> EmptyDict, errors |-> << >>,
     exception |-> None]

\* no map has been created
NoMap ==
    [_min_zoom |-> 0, _max_zoom |-> 0, _default_zoom |-> 0, _width |-> 0, _height |-> 0,
     order |-> << >>, _huts_data |-> EmptyDict, huts_from_pixel |-> NoValue, hut_map_zoom |-> 0,
     call |-> [op |-> "import", zoom_before |-> 0, area |-> << >>], exception |-> None]

\* the class attributes of _TilesCluster when the module has been imported, and no
\* cluster; read_tiles and cache_hits are the tiles that the last call read from the
\* files and took from the cache, call is the last call and before the limits of the
\* cluster image before a call of update_lat_lon
NoCluster ==
    [TILES_CACHE |-> NoValue,
     _tiles_cache_limit |-> NoValue,
     _tiles_caching |-> FALSE,
     _cached_tiles |-> << >>,
     read_tiles |-> << >>,
     cache_hits |-> << >>,
     cluster |-> NoValue,
     call |-> [op |-> "import"],
     before |-> NoValue]

Init ==
    /\ model = InitModel
    /\ thread = IdleThread
    /\ clock = 0
    /\ ncommands = 0
    /\ hut_info = NoHutInfo
    /\ loader = NoFile
    /\ tiles = NoCluster
    /\ navmap = NoMap
    /\ pool = << >>

----------------------------------------------------------------------------
(* Controller commands (main thread).  Each counts as one command.              *)

Command == ncommands < MaxCommands /\ ncommands' = ncommands + 1

\* command_sort, which = 'displayed'
SortDisplayedBy(key) ==
    /\ Command
    /\ model' = sort_displayed_by(model, key)
    /\ UNCHANGED <<thread, clock, hut_info, loader, tiles, navmap, pool>>

\* command_sort, which = 'selected'
SortSelectedBy(key) ==
    /\ Command
    /\ model' = sort_selected_by(model, key)
    /\ UNCHANGED <<thread, clock, hut_info, loader, tiles, navmap, pool>>

\* command_filter, which = 'displayed'
FilterDisplayedBy(key, parameters) ==
    /\ Command
    /\ model' = filter_displayed_by(model, key, parameters)
    /\ UNCHANGED <<thread, clock, hut_info, loader, tiles, navmap, pool>>

\* command_filter, which = 'selected'
FilterSelectedBy(key, parameters) ==
    /\ Command
    /\ model' = filter_selected_by(model, key, parameters)
    /\ UNCHANGED <<thread, clock, hut_info, loader, tiles, navmap, pool>>

\* command_select: adds the hut if it is not selected, removes it otherwise
AddToSelected(index) ==
    /\ Command
    /\ ~In(index, model.all_selected)
    /\ model' = add_to_selected(model, index)
    /\ UNCHANGED <<thread, clock, hut_info, loader, tiles, navmap, pool>>

RemoveFromSelected(index) ==
    /\ Command
    /\ In(index, model.all_selected)
    /\ model' = remove_from_selected(model, index)
    /\ UNCHANGED <<thread, clock, hut_info, loader, tiles, navmap, pool>>

\* command_select_all, which = 'displayed'
SelectAll ==
    /\ Command
    /\ model' = select_all(model)
    /\ UNCHANGED <<thread, clock, hut_info, loader, tiles, navmap, pool>>

\* command_select_all, which = 'selected'
ClearSelected ==
    /\ Command
    /\ model' = clear_selected(model)
    /\ UNCHANGED <<thread, clock, hut_info, loader, tiles, navmap, pool>>

\* command_select_window: the huts of indexes are in the catalog
CommandSelectWindow(type, indexes, window) ==
    /\ Command
    /\ Range(indexes) \subseteq Range(model.huts)
    /\ model' = command_select_window(model, type, indexes, window.lat_min, window.lat_max,
                                      window.lon_min, window.lon_max)
    /\ UNCHANGED <<thread, clock, hut_info, loader, tiles, navmap, pool>>

\* command_update_dates; the number of days is at least 1 and at most MAX_NIGHTS
UpdateDates(request_date, number_days) ==
    /\ Command
    /\ number_days \in 1..MaxNights
    /\ \E order \in SetOrders({request_date + i * _DAY_DELTA : i \in 0..(number_days - 1)}) :
           model' = update_dates(model, request_date, number_days, order)
    /\ UNCHANGED <<thread, clock, hut_info, loader, tiles, navmap, pool>>

\* command_update_reference_location, which = 'latlon'
SetReferenceLocation(lat_ref, lon_ref) ==
    /\ Command
    /\ model' = set_reference_location(model, lat_ref, lon_ref)
    /\ UNCHANGED <<thread, clock, hut_info, loader, tiles, navmap, pool>>

\* command_open_info_frame -> get_hut_info
GetHutInfo(index) ==
    /\ Command
    /\ hut_info' = get_hut_info(model, index)
    /\ UNCHANGED <<model, thread, clock, loader, tiles, navmap, pool>>

\* command_update_results -> update_results_for_displayed / _selected / _indexes ->
\* _get_results_for_date.  A batch is started only if the clock of the model lets
\* every request of the batch be performed.
CommandUpdateResults(which, indexes) ==
    /\ Command
    /\ model.retrieve_enabled
    /\ thread.pc = "idle"
    /\ LET huts_list ==
               CASE which = "displayed" -> Copy(model.displayed)
                 [] which = "selected" -> Copy(model.selected)
                 [] which = "huts" -> indexes
       IN  /\ clock + Len(huts_list) <= MaxClock
           /\ model' = [enable_retrieve(model, FALSE) EXCEPT !.results_cancelled = FALSE]
           /\ thread' = [pc |-> "loop", huts_list |-> huts_list, done |-> 0,
                         results |-> EmptyDict, start_date |-> model.request_date,
                         events |-> << >>]
    /\ UNCHANGED <<clock, hut_info, loader, tiles, navmap, pool>>

\* _cancel_results, called by the cancel button of the waiting message, which is
\* shown from the start of the batch until the view has closed it
CancelResults ==
    /\ Command
    /\ thread.pc # "idle"
    /\ model' = [model EXCEPT !.results_cancelled = TRUE]
    /\ UNCHANGED <<thread, clock, hut_info, loader, tiles, navmap, pool>>

----------------------------------------------------------------------------
(* The worker thread: _perform_web_request                                      *)

\* the events of a batch, in the order in which they happen: a call of the observer with
\* the number of outstanding requests, the request for a hut, the merge of the results
Observer(outstanding_requests) == [type |-> "observer", value |-> outstanding_requests]

Fetch(index) == [type |-> "fetch", value |-> index]

Merge == [type |-> "merge", value |-> 0]

\* what perform_web_request_for_hut can return at time now for start_date: without
\* error every date of the request has its places, with an error the places of the
\* first k dates, filled in before the exception, remain (k in partial)
WebResults(places_of_date, warnings, partial, start_date, now) ==
    {[error |-> None, warning |-> w, requested_dates |-> BookDates(start_date),
      request_time |-> now, places |-> p] :
        w \in warnings, p \in [BookDates(start_date) -> places_of_date]}
    \cup
    {[error |-> "Error occurred", warning |-> None, requested_dates |-> BookDates(start_date),
      request_time |-> now, places |-> p] :
        p \in UNION {[start_date..(start_date + k - 1) -> places_of_date] : k \in partial}}

\* the head of an iteration without the test of the cancel flag
WorkerCheckCancelled_no_test ==
    /\ thread.pc = "loop"
    /\ thread.done < Len(thread.huts_list)
    /\ thread' = [thread EXCEPT !.pc = "fetch",
                                !.events = Append(@, Observer(Len(thread.huts_list) - thread.done))]
    /\ UNCHANGED <<model, clock, ncommands, hut_info, loader, tiles, navmap, pool>>

\* the head of an iteration of the loop: observer(outstanding_requests) and the test
\* of the cancel flag, which is not set
WorkerCheckCancelled ==
    /\ thread.pc = "loop"
    /\ thread.done < Len(thread.huts_list)
    /\ ~model.results_cancelled
    /\ thread' = [thread EXCEPT !.pc = "fetch",
                                !.events = Append(@, Observer(Len(thread.huts_list) - thread.done))]
    /\ UNCHANGED <<model, clock, ncommands, hut_info, loader, tiles, navmap, pool>>

\* a request for the hut at the same position from the end of the list
WorkerRequest_from_the_end(result) ==
    /\ thread.pc = "fetch"
    /\ LET index == thread.huts_list[Len(thread.huts_list) - thread.done]
       IN  /\ index \in DOMAIN _huts_dictionary
           /\ thread' = [thread EXCEPT !.results = (index :> result) @@ @,
                                       !.done = @ + 1,
                                       !.pc = "loop",
                                       !.events = Append(@, Fetch(index))]
    /\ clock' = clock + 1
    /\ UNCHANGED <<model, ncommands, hut_info, loader, tiles, navmap, pool>>

\* the request for the next hut, which is in the catalog, and the end of the iteration
WorkerRequest(result) ==
    /\ thread.pc = "fetch"
    /\ LET index == thread.huts_list[thread.done + 1]
       IN  /\ index \in DOMAIN _huts_dictionary
           /\ thread' = [thread EXCEPT !.results = (index :> result) @@ @,
                                       !.done = @ + 1,
                                       !.pc = "loop",
                                       !.events = Append(@, Fetch(index))]
    /\ clock' = clock + 1
    /\ UNCHANGED <<model, ncommands, hut_info, loader, tiles, navmap, pool>>

\* self._huts_dictionary[index] raises KeyError for a hut that is not in the catalog:
\* the exception ends the thread
WorkerKeyError ==
    /\ thread.pc = "fetch"
    /\ thread.huts_list[thread.done + 1] \notin DOMAIN _huts_dictionary
    /\ thread' = [thread EXCEPT !.pc = "crashed"]
    /\ UNCHANGED <<model, clock, ncommands, hut_info, loader, tiles, navmap, pool>>

\* the loop ends: the list is exhausted, or the iteration finds the cancel flag set
WorkerLoopExit ==
    /\ thread.pc = "loop"
    /\ thread.done = Len(thread.huts_list) \/ model.results_cancelled
    /\ thread' = [thread EXCEPT !.pc = "update",
                                !.events = IF thread.done < Len(thread.huts_list)
                                           THEN Append(@, Observer(Len(thread.huts_list) - thread.done))
                                           ELSE @]
    /\ UNCHANGED <<model, clock, ncommands, hut_info, loader, tiles, navmap, pool>>

\* observer(0) and _update_results_dictionary(results)
WorkerUpdate ==
    /\ thread.pc = "update"
    /\ model' = [model EXCEPT !.results_dictionary =
                    _update_results_dictionary(model.results_dictionary, thread.results)]
    /\ thread' = [thread EXCEPT !.pc = "final", !.events = @ \o <<Observer(0), Merge>>]
    /\ UNCHANGED <<clock, ncommands, hut_info, loader, tiles, navmap, pool>>

\* final_observer(): _update_gui_after_retrieve
WorkerFinal ==
    /\ thread.pc = "final"
    /\ model' = get_all_data_after_retrieve(enable_retrieve(model, TRUE))
    /\ thread' = IdleThread
    /\ UNCHANGED <<clock, ncommands, hut_info, loader, tiles, navmap, pool>>

----------------------------------------------------------------------------
(* Specification of the whole model: every command, with inputs from small sets *)

FirstDates == 1..MaxDate

Closed == "closed" :> 0

SpecFilters ==
    {<<"country", ValueParameters(1)>>,
     <<"distance", MinMaxParameters(NoValue, Some(1500))>>,
     <<"available", MinMaxParameters(Some(1), NoValue)>>,
     <<"open", NoParameters>>}

SpecSortKeys == {"name", "country", "available"}

SpecLocations == {_DEFAULT_REFERENCE_LOCATION, [lat |-> 4700, lon |-> 1100], [lat |-> 9000, lon |-> 0]}

SpecPlaces == {"shared" :> 0, "shared" :> MaxBeds}

\* the results drawn for a request: an error, or places that are the same on every
\* date after the first
SpecResults ==
    {r \in WebResults(SpecPlaces, {None}, {0}, thread.start_date, clock) :
        \A d \in DOMAIN r.places : d # thread.start_date => r.places[d] = ("shared" :> MaxBeds)}

Next ==
    \/ \E key \in SpecSortKeys : SortDisplayedBy(key)
    \/ \E key \in SpecSortKeys : SortSelectedBy(key)
    \/ \E f \in SpecFilters : FilterDisplayedBy(f[1], f[2])
    \/ \E f \in SpecFilters : FilterSelectedBy(f[1], f[2])
    \/ \E index \in Range(HutIds) : AddToSelected(index)
    \/ \E index \in Range(HutIds) : RemoveFromSelected(index)
    \/ SelectAll
    \/ ClearSelected
    \/ \E request_date \in FirstDates, number_days \in 1..MaxNights :
           UpdateDates(request_date, number_days)
    \/ \E location \in SpecLocations : SetReferenceLocation(location.lat, location.lon)
    \/ \E which \in {"displayed", "selected"} : CommandUpdateResults(which, << >>)
    \/ CancelResults
    \/ WorkerCheckCancelled
    \/ \E result \in SpecResults : WorkerRequest(result)
    \/ WorkerLoopExit
    \/ WorkerUpdate
    \/ WorkerFinal

Spec == Init /\ [][Next]_vars

----------------------------------------------------------------------------
(* Specification of the derived availability: the model is constructed with a    *)
(* results dictionary and request dates drawn from bounded sets, and             *)
(* get_hut_info is applied to it.                                                *)

DerivedRooms == {"double", "shared"}

\* the places of a date: closed, or any of the rooms with 0..MaxBeds places in the
\* double rooms and none or MaxBeds places in the shared room
DerivedPlaces ==
    {Closed} \cup
    {p \in UNION {[S -> 0..MaxBeds] : S \in SUBSET DerivedRooms} :
        "shared" \in DOMAIN p => p["shared"] \in {0, MaxBeds}}

\* the entries of the results dictionary of a hut: what a web request starting on day 1
\* returned, without error or with an error after the places of any number of dates
DerivedEntries == WebResults(DerivedPlaces, {None}, 0..(MaxNights - 1), 1, 0)

\* hut 1 has any entry or none, hut 2 has none
DerivedDictionaries == {EmptyDict} \cup {1 :> e : e \in DerivedEntries}

InitDerived ==
    /\ \E d \in DerivedDictionaries, request_date \in FirstDates, number_days \in 1..MaxNights :
         \E order \in SetOrders({request_date + i * _DAY_DELTA : i \in 0..(number_days - 1)}) :
           model = [InitModel EXCEPT !.results_dictionary = d,
                                     !.request_date = request_date,
                                     !.number_days = number_days,
                                     !.set_order = order]
    /\ thread = IdleThread
    /\ clock = 0
    /\ ncommands = 0
    /\ hut_info = NoHutInfo
    /\ loader = NoFile
    /\ tiles = NoCluster
    /\ navmap = NoMap
    /\ pool = << >>

NextDerived == \E index \in {1, 2} : GetHutInfo(index)

SpecDerived == InitDerived /\ [][NextDerived]_vars

----------------------------------------------------------------------------
(* Properties of the derived availability, stated on the dictionary returned by  *)
(* get_hut_info and the results dictionary it was computed from (no action       *)
(* changes the model after get_hut_info under SpecDerived).                      *)

\* get_hut_info has returned
InfoReturned == hut_info.index # 0

\* the stored result of the hut of hut_info
InfoResult == model.results_dictionary[hut_info.index]

InfoNoResult == hut_info.index \notin DOMAIN model.results_dictionary

InfoHasError == ~InfoNoResult /\ InfoResult.error # None

InfoNotCovered ==
    /\ ~InfoNoResult
    /\ InfoResult.error = None
    /\ ~(Range(hut_info.dates) \subseteq DOMAIN InfoResult.places)

InfoCovered ==
    /\ ~InfoNoResult
    /\ InfoResult.error = None
    /\ Range(hut_info.dates) \subseteq DOMAIN InfoResult.places

\* free beds of a room type in the places of one date, 0 when the room type is absent
Beds(places_of_date, room) == IF room \in DOMAIN places_of_date THEN places_of_date[room] ELSE 0

\* total of free beds of one date: the sum over the room types, 0 for a closed date
TotalOfDate(places_of_date) ==
    IF "closed" \in DOMAIN places_of_date THEN 0
    ELSE Beds(places_of_date, "single") + Beds(places_of_date, "double")
         + Beds(places_of_date, "shared") + Beds(places_of_date, "dormitory")

InfoTotals == {TotalOfDate(InfoResult.places[date]) : date \in Range(hut_info.dates)}

\* C6: for a hut whose stored result has no error and covers every requested date,
\* available is the minimum over the requested dates of the per-date total of free
\* beds, a closed date counting as a total of 0
C6_AvailableIsMinOfTotals ==
    (InfoReturned /\ InfoCovered) =>
        /\ hut_info.available \in InfoTotals
        /\ \A total \in InfoTotals : hut_info.available <= total

\* C6 witness: two requested dates with different totals, none of them 0, and the
\* smaller one is returned
C6_Witness ==
    /\ InfoReturned /\ InfoCovered
    /\ Cardinality(InfoTotals) = 2
    /\ 0 \notin InfoTotals
    /\ hut_info.available \in InfoTotals
    /\ \A total \in InfoTotals : hut_info.available <= total

\* C6 witness of the closed sentinel: a requested date is closed, another has free
\* beds, and available is 0
C6_WitnessClosed ==
    /\ InfoReturned /\ InfoCovered
    /\ \E date \in Range(hut_info.dates) : "closed" \in DOMAIN InfoResult.places[date]
    /\ \E date \in Range(hut_info.dates) : TotalOfDate(InfoResult.places[date]) > 0
    /\ hut_info.available = 0

\* the room types offered on at least one requested date
InfoOfferedRooms ==
    {room \in RoomTypes : \E date \in Range(hut_info.dates) : room \in DOMAIN InfoResult.places[date]}

\* C7: for a hut whose stored result has no error and covers every requested date,
\* the per-room availability of every room type offered on at least one requested
\* date is the minimum over the requested dates of its free beds, 0 on a date where
\* the room type is absent, and the per-room result does not depend on the order in
\* which the requested dates are visited
C7_RoomIsMinOverDates ==
    (InfoReturned /\ InfoCovered) =>
        /\ \A room \in InfoOfferedRooms :
               /\ ~IsNone(hut_info.rooms[room])
               /\ \E date \in Range(hut_info.dates) :
                      Val(hut_info.rooms[room]) = Beds(InfoResult.places[date], room)
               /\ \A date \in Range(hut_info.dates) :
                      Val(hut_info.rooms[room]) <= Beds(InfoResult.places[date], room)
        /\ \A order \in SetOrders(Range(hut_info.dates)) :
               _available_places_for_room(model.results_dictionary, hut_info.index, order)
                   = _available_places_for_room(model.results_dictionary, hut_info.index,
                                                model.set_order)

\* C8 as stated: in each of the three no-data cases the four computations return
\* False, 0, an empty mapping and an empty mapping
C8_SentinelsAsStated ==
    (InfoReturned /\ (InfoNoResult \/ InfoHasError \/ InfoNotCovered)) =>
        /\ hut_info.open = FALSE
        /\ hut_info.available = 0
        /\ \A room \in RoomTypes : IsNone(hut_info.rooms[room])
        /\ hut_info.detailed_places = EmptyDict

\* C8 amended: open, available and per-room return False, 0 and an empty mapping in
\* the three no-data cases; detailed returns an empty mapping when the hut has no
\* stored result or the result has an error, and when a requested date is not
\* covered it maps every requested date to its stored places, or to an empty mapping
\* if the date is not covered
C8_Sentinels ==
    /\ (InfoReturned /\ (InfoNoResult \/ InfoHasError \/ InfoNotCovered)) =>
           /\ hut_info.open = FALSE
           /\ hut_info.available = 0
           /\ \A room \in RoomTypes : IsNone(hut_info.rooms[room])
    /\ (InfoReturned /\ (InfoNoResult \/ InfoHasError)) =>
           hut_info.detailed_places = EmptyDict
    /\ (InfoReturned /\ InfoNotCovered) =>
           /\ DOMAIN hut_info.detailed_places = Range(hut_info.dates)
           /\ \A date \in Range(hut_info.dates) :
                  hut_info.detailed_places[date] =
                      IF date \in DOMAIN InfoResult.places THEN InfoResult.places[date]
                      ELSE EmptyDict

\* C8 witness: a requested date with free beds in two rooms is covered, another is
\* not, and get_hut_info has returned
C8_Witness ==
    /\ InfoReturned /\ InfoNotCovered
    /\ \E date \in Range(hut_info.dates) :
           /\ date \in DOMAIN InfoResult.places
           /\ TotalOfDate(InfoResult.places[date]) > 0
           /\ hut_info.detailed_places[date] = InfoResult.places[date]
    /\ hut_info.available = 0

\* C8 witness of the error case: the stored result has an error and places of the
\* first requested date
C8_WitnessError ==
    /\ InfoReturned /\ InfoHasError
    /\ hut_info.dates[1] \in DOMAIN InfoResult.places
    /\ hut_info.detailed_places = EmptyDict

\* C9: if the stored places of any requested date contain the closed sentinel, open
\* is False, whatever the places of the other requested dates are
C9_ClosedDateNotOpen ==
    (/\ InfoReturned
     /\ ~InfoNoResult
     /\ \E date \in Range(hut_info.dates) :
            date \in DOMAIN InfoResult.places /\ "closed" \in DOMAIN InfoResult.places[date])
        => hut_info.open = FALSE

\* C9 witness: no error, every requested date covered, one closed and another with
\* free beds
C9_Witness ==
    /\ InfoReturned /\ InfoCovered
    /\ \E date \in Range(hut_info.dates) : "closed" \in DOMAIN InfoResult.places[date]
    /\ \E date \in Range(hut_info.dates) : TotalOfDate(InfoResult.places[date]) > 0
    /\ hut_info.open = FALSE
    /\ hut_info.status = CLOSED

----------------------------------------------------------------------------
(* Properties of the filters                                                     *)

\* the hut passes the filter of one item [key, parameters] of a filter-key dict
Passes(m, item, index) == Len(_filter_by(m, <<index>>, item.key, item.parameters)) = 1

\* the huts of candidates that pass every filter of filter_keys
PassSet(m, filter_keys, candidates) ==
    {index \in candidates : \A i \in 1..Len(filter_keys) : Passes(m, filter_keys[i], index)}

DisplayedExact(m) == Range(m.displayed) = PassSet(m, m.filter_displayed_keys, Range(HutIds))

SelectedExact(m) == Range(m.selected) = PassSet(m, m.filter_selected_keys, Range(m.all_selected))

\* the filters that depend on retrieved data, with the parameters of the model
DataFilters ==
    {f \in SpecFilters : f[1] \in {"response", "open", "available"} \cup RoomTypes}

\* C1: a step of filter_displayed_by or filter_selected_by with a key that depends on
\* retrieved data never removes from the list a hut that has no entry in the results
\* dictionary
C1_NoEntryNeverRemoved ==
    [][\A f \in DataFilters :
          /\ model' = filter_displayed_by(model, f[1], f[2]) =>
                 \A index \in Range(model.displayed) :
                     index \notin DOMAIN model.results_dictionary => In(index, model'.displayed)
          /\ model' = filter_selected_by(model, f[1], f[2]) =>
                 \A index \in Range(model.selected) :
                     index \notin DOMAIN model.results_dictionary => In(index, model'.selected)]_vars

\* a step of one of the public operations taken while no retrieval is running, or the
\* refresh at the end of a retrieval
PublicOperationStep ==
    \/ /\ thread.pc = "idle"
       /\ thread' = thread
       /\ ncommands' # ncommands
    \/ /\ thread.pc = "final"
       /\ thread'.pc = "idle"

\* C2: after every public operation displayed is exactly the set of the huts of the
\* catalog that pass every active displayed-filter and selected is exactly the set
\* of the huts of all_selected that pass every active selected-filter, for the
\* current dates, reference location and results dictionary
C2_ListsExactAfterOperation ==
    [][PublicOperationStep => (DisplayedExact(model') /\ SelectedExact(model'))]_vars

----------------------------------------------------------------------------
(* Properties of the order of the lists                                          *)

\* the keys by which _sort_by sorts; with any other key it copies the list
SortingKeys ==
    {"name", "country", "region", "mountain_range", "height", "self_catering", "distance",
     "available"} \cup RoomTypes

\* the value by which a hut is sorted
SortValue(m, key, index) ==
    CASE key = "name" -> _huts_dictionary[index].name
      [] key = "country" -> _huts_dictionary[index].country
      [] key = "region" -> RegionsLabels(_huts_dictionary[index].region)
      [] key = "mountain_range" -> MountainRangesLabels(_huts_dictionary[index].mountain_range)
      [] key = "height" -> _huts_dictionary[index].height
      [] key = "self_catering" -> _huts_dictionary[index].self_catering
      [] key = "distance" ->
            distance(_huts_dictionary[index].lat, _huts_dictionary[index].lon,
                     m.reference_location.lat, m.reference_location.lon)
      [] key = "available" -> _available_places(m.results_dictionary, index, request_dates(m))
      [] key \in RoomTypes ->
            LET rooms == _available_places_for_room(m.results_dictionary, index, m.set_order)
            IN  IF key \in DOMAIN rooms THEN rooms[key] ELSE -1

IndexOf(list, x) == CHOOSE i \in 1..Len(list) : list[i] = x

Reverse(list) == [i \in 1..Len(list) |-> list[Len(list) + 1 - i]]

\* list is in the order of the key and direction, the huts with equal values being in
\* the order they have in base; without a sorting key list is in the order of base
IsOrdered(m, list, key, ascending, base) ==
    \A i, j \in 1..Len(list) : i < j =>
        IF key \in SortingKeys
        THEN LET vi == SortValue(m, key, list[i])
                 vj == SortValue(m, key, list[j])
             IN  /\ IF ascending THEN vi <= vj ELSE vi >= vj
                 /\ vi = vj => IndexOf(base, list[i]) < IndexOf(base, list[j])
        ELSE IndexOf(base, list[i]) < IndexOf(base, list[j])

HasTies(m, key, list) ==
    \E i, j \in 1..Len(list) : i # j /\ SortValue(m, key, list[i]) = SortValue(m, key, list[j])

\* second is what a second sort by key makes of first: the same huts; in the opposite
\* direction with the huts of equal value in the order they have in first, hence the
\* exact reverse of first when no two huts have equal values; first itself when the
\* key is not one that sorts
SecondSort(m, key, first, second, ascending) ==
    /\ Len(second) = Len(first)
    /\ Range(second) = Range(first)
    /\ IF key \in SortingKeys
       THEN /\ IsOrdered(m, first, key, ~ascending, first)
            /\ IsOrdered(m, second, key, ascending, first)
            /\ ~HasTies(m, key, first) => second = Reverse(first)
       ELSE second = first

\* C4 as stated: sorting twice in a row by the same key yields, after the second
\* call, exactly the reverse of the list produced by the first call
C4_SecondSortReverses ==
    \A key \in SortingKeys :
        /\ LET m1 == sort_displayed_by(model, key)
               m2 == sort_displayed_by(m1, key)
           IN  m2.displayed = Reverse(m1.displayed)
        /\ LET m1 == sort_selected_by(model, key)
               m2 == sort_selected_by(m1, key)
           IN  m2.selected = Reverse(m1.selected)

\* C4 amended: sorting twice in a row by the same key yields, after the second call,
\* the list of the first call sorted in the opposite direction, the huts with equal
\* values of the key keeping the relative order of the first call; this is the exact
\* reverse when no two huts of the list have equal values; with a key that does not
\* sort (data_requested, response, open) the list is unchanged
C4_SecondSortOpposite ==
    \A key \in SortKeys :
        /\ LET m1 == sort_displayed_by(model, key)
               m2 == sort_displayed_by(m1, key)
           IN  /\ m2.sort_displayed_ascending = ~m1.sort_displayed_ascending
               /\ SecondSort(model, key, m1.displayed, m2.displayed, m2.sort_displayed_ascending)
        /\ LET m1 == sort_selected_by(model, key)
               m2 == sort_selected_by(m1, key)
           IN  /\ m2.sort_selected_ascending = ~m1.sort_selected_ascending
               /\ SecondSort(model, key, m1.selected, m2.selected, m2.sort_selected_ascending)

\* C4 witness: the displayed list has been sorted by country, huts 1 and 2 have the
\* same country, and a second sort by country puts hut 3 first and keeps 1 before 2
C4_Witness ==
    /\ model.sort_displayed_key = "country"
    /\ model.sort_displayed_ascending
    /\ model.displayed = <<1, 2, 3>>
    /\ sort_displayed_by(model, "country").displayed = <<3, 1, 2>>

\* C4 witness without ties: the selected list has been sorted by name and a second
\* sort by name reverses it
C4_WitnessReverse ==
    /\ model.sort_selected_key = "name"
    /\ Len(model.selected) >= 2
    /\ ~HasTies(model, "name", model.selected)
    /\ sort_selected_by(model, "name").selected = Reverse(model.selected)

\* the default direction of every key: TRUE is ascending
DefaultAscending(key) ==
    CASE key \in {"name", "country", "region", "mountain_range", "self_catering", "height",
                  "distance", "data_requested", "response", "open"} -> TRUE
      [] key \in {"available", "single", "double", "shared", "dormitory"} -> FALSE

\* C5: a step of sort_displayed_by(key) with the active displayed key negates the
\* direction and keeps the key, with any other key it makes that key active with its
\* default direction; the key and direction of the selected list are unchanged; and
\* symmetrically for sort_selected_by
C5_SortStateMachine ==
    [][\A key \in SortKeys :
          /\ model' = sort_displayed_by(model, key) =>
                 /\ model'.sort_displayed_key = key
                 /\ model'.sort_displayed_ascending =
                        IF key = model.sort_displayed_key THEN ~model.sort_displayed_ascending
                        ELSE DefaultAscending(key)
                 /\ model'.sort_selected_key = model.sort_selected_key
                 /\ model'.sort_selected_ascending = model.sort_selected_ascending
          /\ model' = sort_selected_by(model, key) =>
                 /\ model'.sort_selected_key = key
                 /\ model'.sort_selected_ascending =
                        IF key = model.sort_selected_key THEN ~model.sort_selected_ascending
                        ELSE DefaultAscending(key)
                 /\ model'.sort_displayed_key = model.sort_displayed_key
                 /\ model'.sort_displayed_ascending = model.sort_displayed_ascending]_vars

\* C5 witness: the displayed list is sorted by a room type in its default descending
\* direction while the selected list, sorted twice by name, is descending
C5_Witness ==
    /\ model.sort_displayed_key = "shared"
    /\ ~model.sort_displayed_ascending
    /\ model.sort_selected_key = "name"
    /\ ~model.sort_selected_ascending

\* a results dictionary after the retrieval of huts 1 and 2 from day 1: hut 1 has one
\* place in the shared room, hut 2 is closed
OneResult(places_of_date) ==
    [error |-> None, warning |-> None, requested_dates |-> BookDates(1), request_time |-> 0,
     places |-> [date \in BookDates(1) |-> places_of_date]]

TwoHutsDictionary == (1 :> OneResult("shared" :> 1)) @@ (2 :> OneResult(Closed))

\* the model with the results dictionary empty or retrieved for huts 1 and 2
InitSort ==
    /\ \E d \in {EmptyDict, TwoHutsDictionary} : model = [InitModel EXCEPT !.results_dictionary = d]
    /\ thread = IdleThread
    /\ clock = 0
    /\ ncommands = 0
    /\ hut_info = NoHutInfo
    /\ loader = NoFile
    /\ tiles = NoCluster
    /\ navmap = NoMap
    /\ pool = << >>

SortSelectedKeys == {"name", "country", "shared"}

NextSort ==
    \/ \E key \in SortKeys : SortDisplayedBy(key)
    \/ \E key \in SortSelectedKeys : SortSelectedBy(key)
    \/ \E index \in Range(HutIds) : AddToSelected(index)

SpecSort == InitSort /\ [][NextSort]_vars

----------------------------------------------------------------------------
(* Specification of the lists: sorts, filters, selections and changes of the     *)
(* reference location                                                            *)

ViewFilters ==
    {<<"country", ValueParameters(1)>>,
     <<"distance", MinMaxParameters(NoValue, Some(1500))>>,
     <<"available", MinMaxParameters(Some(1), NoValue)>>,
     <<"available", MinMaxParameters(Some(MaxBeds), NoValue)>>}

ViewSortKeys == {"name", "country"}

NextView ==
    \/ \E key \in ViewSortKeys : SortDisplayedBy(key)
    \/ \E key \in ViewSortKeys : SortSelectedBy(key)
    \/ \E f \in ViewFilters : FilterDisplayedBy(f[1], f[2])
    \/ \E f \in ViewFilters : FilterSelectedBy(f[1], f[2])
    \/ \E index \in Range(HutIds) : AddToSelected(index)
    \/ \E index \in Range(HutIds) : RemoveFromSelected(index)
    \/ SelectAll
    \/ ClearSelected
    \/ \E location \in SpecLocations : SetReferenceLocation(location.lat, location.lon)

SpecView == InitSort /\ [][NextView]_vars

\* the items of a filter-key dict
Items(filter_keys) == Range(filter_keys)

\* the filter-key dict after two calls with key and parameters: unchanged when the key
\* was not active, otherwise the key is active with parameters
KeysAfterTwoCalls(filter_keys_before, filter_keys_after, key, parameters) ==
    IF ~HasKey(filter_keys_before, key)
    THEN filter_keys_after = filter_keys_before
    ELSE Items(filter_keys_after) =
             {item \in Items(filter_keys_before) : item.key # key}
                 \cup {[key |-> key, parameters |-> parameters]}

\* key was not active, or active with the same parameters
SameFilter(filter_keys, key, parameters) ==
    \A item \in Items(filter_keys) : item.key = key => item.parameters = parameters

\* C3 as stated: calling filter_displayed_by twice in succession with the same key
\* and parameters (the key not being active with other parameters) leaves displayed
\* as it was, same huts in the same order, and the filter keys unchanged; the same
\* for filter_selected_by and selected
C3_FilterTwiceRestores ==
    \A f \in ViewFilters :
        /\ SameFilter(model.filter_displayed_keys, f[1], f[2]) =>
               LET m2 == filter_displayed_by(filter_displayed_by(model, f[1], f[2]), f[1], f[2])
               IN  /\ m2.displayed = model.displayed
                   /\ Items(m2.filter_displayed_keys) = Items(model.filter_displayed_keys)
        /\ SameFilter(model.filter_selected_keys, f[1], f[2]) =>
               LET m2 == filter_selected_by(filter_selected_by(model, f[1], f[2]), f[1], f[2])
               IN  /\ m2.selected = model.selected
                   /\ Items(m2.filter_selected_keys) = Items(model.filter_selected_keys)

\* C3 amended: calling filter_displayed_by twice in succession with the same key and
\* parameters leaves the filter keys unchanged when the key was not active (a key
\* that was active ends active with the parameters of the calls) and leaves
\* displayed recreated: exactly the huts of the catalog that pass every active
\* filter, in the order of the active sort, huts with equal values in catalog order.
\* These are the huts of the list before the calls whenever that list held exactly
\* the huts passing its filters and the key was not active with other parameters;
\* their order before the calls is not kept.  The same holds for filter_selected_by
\* and selected, with all_selected in place of the catalog.
C3_FilterTwiceRecreates ==
    \A f \in ViewFilters :
        /\ LET m2 == filter_displayed_by(filter_displayed_by(model, f[1], f[2]), f[1], f[2])
           IN  /\ KeysAfterTwoCalls(model.filter_displayed_keys, m2.filter_displayed_keys, f[1], f[2])
               /\ DisplayedExact(m2)
               /\ IsOrdered(m2, m2.displayed, m2.sort_displayed_key, m2.sort_displayed_ascending,
                            HutIds)
               /\ (DisplayedExact(model) /\ SameFilter(model.filter_displayed_keys, f[1], f[2]))
                      => Range(m2.displayed) = Range(model.displayed)
               /\ m2.selected = model.selected
        /\ LET m2 == filter_selected_by(filter_selected_by(model, f[1], f[2]), f[1], f[2])
           IN  /\ KeysAfterTwoCalls(model.filter_selected_keys, m2.filter_selected_keys, f[1], f[2])
               /\ SelectedExact(m2)
               /\ IsOrdered(m2, m2.selected, m2.sort_selected_key, m2.sort_selected_ascending,
                            m2.all_selected)
               /\ (SelectedExact(model) /\ SameFilter(model.filter_selected_keys, f[1], f[2]))
                      => Range(m2.selected) = Range(model.selected)
               /\ m2.displayed = model.displayed

\* C3 witness: displayed was sorted by name and then by country, which leaves hut 2
\* before hut 1; two calls of the distance filter recreate the list with hut 1 first
C3_Witness ==
    /\ model.sort_displayed_key = "country"
    /\ model.displayed = <<2, 1, 3>>
    /\ model.filter_displayed_keys = << >>
    /\ LET m2 == filter_displayed_by(
                     filter_displayed_by(model, "distance", MinMaxParameters(NoValue, Some(1500))),
                     "distance", MinMaxParameters(NoValue, Some(1500)))
       IN  /\ m2.displayed = <<1, 2, 3>>
           /\ m2.filter_displayed_keys = << >>

\* C3 witness of an active key: the available filter is active with a minimum of 1
\* and two calls with the minimum MaxBeds leave it active with the minimum MaxBeds
C3_WitnessActive ==
    /\ HasKey(model.filter_selected_keys, "available")
    /\ ~SameFilter(model.filter_selected_keys, "available", MinMaxParameters(Some(MaxBeds), NoValue))
    /\ Len(model.selected) > 0
    /\ LET m2 == filter_selected_by(
                     filter_selected_by(model, "available", MinMaxParameters(Some(MaxBeds), NoValue)),
                     "available", MinMaxParameters(Some(MaxBeds), NoValue))
       IN  m2.selected # model.selected

----------------------------------------------------------------------------
(* Specification of the retrieval: batches of web requests for hut 1 or huts 1   *)
(* and 2, their cancellation, and changes of the request dates between them      *)

RetrievePlaces == {"shared" :> 1, Closed}

RetrieveWarnings == {None, "Unexpected name"}

\* the results drawn for a request: an error after the places of no date or of the
\* first date, or places that are the same on every date after the first
RetrieveResults ==
    {r \in WebResults(RetrievePlaces, RetrieveWarnings, {0, 1}, thread.start_date, clock) :
        \A d \in DOMAIN r.places : d # thread.start_date => r.places[d] = ("shared" :> 1)}

NextRetrieve ==
    \/ \E indexes \in {<<1>>, <<1, 2>>} : CommandUpdateResults("huts", indexes)
    \/ \E request_date \in FirstDates : UpdateDates(request_date, 1)
    \/ CancelResults
    \/ WorkerCheckCancelled
    \/ \E result \in RetrieveResults : WorkerRequest(result)
    \/ WorkerLoopExit
    \/ WorkerUpdate
    \/ WorkerFinal

SpecRetrieve == Init /\ [][NextRetrieve]_vars

\* C10: when the results of a batch are merged, every hut that already has an entry
\* ends with the error, warning and request_time of its new result; every date of
\* the places of the new result maps to the new value, every date that only the old
\* entry has keeps its old value, and no date is dropped
C10_MergeKeepsOldDates ==
    [][(thread.pc = "update" /\ thread'.pc = "final") =>
          \A index \in DOMAIN thread.results \cap DOMAIN model.results_dictionary :
              LET old == model.results_dictionary[index]
                  result == thread.results[index]
                  new == model'.results_dictionary[index]
              IN  /\ new.error = result.error
                  /\ new.warning = result.warning
                  /\ new.request_time = result.request_time
                  /\ DOMAIN new.places = DOMAIN old.places \cup DOMAIN result.places
                  /\ \A date \in DOMAIN result.places : new.places[date] = result.places[date]
                  /\ \A date \in DOMAIN old.places \ DOMAIN result.places :
                         new.places[date] = old.places[date]]_vars

\* C10 witness: the result of the second request of hut 1, which has places, has been
\* merged; the entry has the request time and the places of that result and keeps a
\* date that the result does not have
C10_Witness ==
    /\ thread.pc = "final"
    /\ 1 \in DOMAIN thread.results
    /\ thread.results[1].request_time = 1
    /\ model.results_dictionary[1].request_time = 1
    /\ thread.results[1].places # EmptyDict
    /\ DOMAIN model.results_dictionary[1].places # DOMAIN thread.results[1].places
    /\ \A date \in DOMAIN thread.results[1].places :
           model.results_dictionary[1].places[date] = thread.results[1].places[date]

\* C10 witness of an error: a result with an error and no places has been merged into
\* an entry that keeps its places
C10_WitnessError ==
    /\ thread.pc = "final"
    /\ 1 \in DOMAIN thread.results
    /\ thread.results[1].request_time = 1
    /\ thread.results[1].error # None
    /\ thread.results[1].places = EmptyDict
    /\ model.results_dictionary[1].error # None
    /\ model.results_dictionary[1].places # EmptyDict

----------------------------------------------------------------------------
(* Properties of the status                                                      *)

\* data were requested for every request date of hut_info
InfoDataRequested ==
    /\ ~InfoNoResult
    /\ Range(hut_info.dates) \subseteq InfoResult.requested_dates

\* C11: the status is decided by the first rule that applies: NO_RESPONSE if the
\* stored result has an error, otherwise NO_REQUEST if data were not requested for
\* all request dates or there is no stored result, otherwise CLOSED if open is
\* False, otherwise NOT_AVAILABLE if available is 0, otherwise AVAILABLE
C11_StatusPriority ==
    InfoReturned =>
        hut_info.status =
            IF InfoHasError THEN NO_RESPONSE
            ELSE IF ~InfoDataRequested THEN NO_REQUEST
            ELSE IF hut_info.open = FALSE THEN CLOSED
            ELSE IF hut_info.available = 0 THEN NOT_AVAILABLE
            ELSE AVAILABLE

\* C11 witness: the stored result has an error and was not requested for all request
\* dates, two rules apply and the status is NO_RESPONSE
C11_Witness ==
    /\ InfoReturned
    /\ InfoHasError
    /\ ~InfoDataRequested
    /\ hut_info.status = NO_RESPONSE

\* C11 witness of the last rules: the hut is open on all request dates and has no
\* free beds
C11_WitnessNotAvailable ==
    /\ InfoReturned
    /\ InfoDataRequested
    /\ hut_info.open
    /\ hut_info.status = NOT_AVAILABLE

----------------------------------------------------------------------------
(* Specification of the selection: huts are selected one by one, by window or    *)
(* all at once, and the selected list is filtered and sorted                     *)

\* windows whose bounds are the coordinates of hut 1, around huts 1 and 2, around
\* huts 2 and 3 with hut 2 on the lower longitude bound, around every hut, around none
SelectWindows ==
    {[lat_min |-> 4600, lat_max |-> 4600, lon_min |-> 800, lon_max |-> 800],
     [lat_min |-> 4500, lat_max |-> 4650, lon_min |-> 700, lon_max |-> 900],
     [lat_min |-> 4500, lat_max |-> 4800, lon_min |-> 801, lon_max |-> 1200],
     [lat_min |-> 4000, lat_max |-> 5000, lon_min |-> 0, lon_max |-> 2000],
     [lat_min |-> 0, lat_max |-> 100, lon_min |-> 0, lon_max |-> 100]}

SelectTypes == {"select", "select only", "deselect"}

SelectCandidates == {<<1, 2, 3>>, <<1, 2>>, <<3, 2>>, <<3>>, << >>}

SelectFilters == {<<"country", ValueParameters(1)>>}

NextSelect ==
    \/ \E index \in Range(HutIds) : AddToSelected(index)
    \/ \E type \in SelectTypes, indexes \in SelectCandidates, window \in SelectWindows :
           CommandSelectWindow(type, indexes, window)
    \/ SelectAll
    \/ ClearSelected
    \/ \E f \in SelectFilters : FilterDisplayedBy(f[1], f[2])
    \/ \E f \in SelectFilters : FilterSelectedBy(f[1], f[2])
    \/ SortSelectedBy("name")

SpecSelect == Init /\ [][NextSelect]_vars

\* the hut lies in the box, bounds included
InBox(index, window) ==
    /\ window.lat_min <= _huts_dictionary[index].lat
    /\ _huts_dictionary[index].lat <= window.lat_max
    /\ window.lon_min <= _huts_dictionary[index].lon
    /\ _huts_dictionary[index].lon <= window.lon_max

CandidatesInside(indexes, window) == {index \in Range(indexes) : InBox(index, window)}

CandidatesOutside(indexes, window) == {index \in Range(indexes) : ~InBox(index, window)}

\* C12: a step of select-only-in-window leaves in all_selected exactly the huts that
\* were selected except the candidates outside the box; a step of select-in-window
\* adds exactly the candidates inside the box and a step of deselect-in-window
\* removes exactly the candidates inside the box; no hut is selected twice
C12_SelectWindow ==
    [][\A type \in SelectTypes, indexes \in SelectCandidates, window \in SelectWindows :
          model' = command_select_window(model, type, indexes, window.lat_min, window.lat_max,
                                         window.lon_min, window.lon_max)
          => /\ Range(model'.all_selected) =
                    CASE type = "select only" ->
                             Range(model.all_selected) \ CandidatesOutside(indexes, window)
                      [] type = "select" ->
                             Range(model.all_selected) \cup CandidatesInside(indexes, window)
                      [] type = "deselect" ->
                             Range(model.all_selected) \ CandidatesInside(indexes, window)
             /\ Cardinality(Range(model'.all_selected)) = Len(model'.all_selected)]_vars

\* C12 witness: the three huts are selected and select-only on every hut with the
\* window around huts 1 and 2 leaves huts 1 and 2 selected
C12_Witness ==
    /\ Range(model.all_selected) = {1, 2, 3}
    /\ Range(command_select_window(model, "select only", <<1, 2, 3>>, 4500, 4650, 700, 900).all_selected)
           = {1, 2}

\* C12 witness of a candidate in the box that is not selected: hut 3 alone is
\* selected and select-only with the window around huts 1 and 2 selects no hut
C12_WitnessNoneAdded ==
    /\ model.all_selected = <<3>>
    /\ command_select_window(model, "select only", <<1, 2, 3>>, 4500, 4650, 700, 900).all_selected
           = << >>

\* C13: a step of select_all leaves displayed unchanged and makes all_selected hold
\* its previous huts and every hut of displayed, each hut once; a step of
\* clear_selected leaves all_selected and selected empty and keeps the filter keys
\* and the sort key of the selected list
C13_SelectAllClearSelected ==
    [][/\ model' = select_all(model) =>
              /\ model'.displayed = model.displayed
              /\ Range(model'.all_selected) = Range(model.all_selected) \cup Range(model.displayed)
              /\ Cardinality(Range(model'.all_selected)) = Len(model'.all_selected)
       /\ model' = clear_selected(model) =>
              /\ model'.all_selected = << >>
              /\ model'.selected = << >>
              /\ model'.filter_selected_keys = model.filter_selected_keys
              /\ model'.sort_selected_key = model.sort_selected_key
              /\ model'.sort_selected_ascending = model.sort_selected_ascending]_vars

\* C13 witness: hut 3 is selected, displayed is filtered to huts 1 and 2, and
\* select_all adds huts 1 and 2 after hut 3 and leaves displayed as it is
C13_Witness ==
    /\ model.displayed = <<1, 2>>
    /\ model.all_selected = <<3>>
    /\ select_all(model).all_selected = <<3, 1, 2>>
    /\ select_all(model).displayed = <<1, 2>>

\* C13 witness of clear_selected: a selected-filter is active, huts are selected, and
\* clear_selected empties the lists and keeps the filter
C13_WitnessClear ==
    /\ model.filter_selected_keys # << >>
    /\ Len(model.all_selected) > 0
    /\ clear_selected(model).selected = << >>
    /\ clear_selected(model).all_selected = << >>
    /\ clear_selected(model).filter_selected_keys = model.filter_selected_keys


----------------------------------------------------------------------------
(* Specification of the retrieval with a worker thread that keeps running: the   *)
(* thread started by _get_results_for_date is scheduled until its function       *)
(* returns, and every web request returns or times out                           *)

WorkerStep ==
    \/ WorkerCheckCancelled
    \/ \E result \in RetrieveResults : WorkerRequest(result)
    \/ WorkerLoopExit
    \/ WorkerUpdate
    \/ WorkerFinal

SpecCancel == Init /\ [][NextRetrieve]_vars /\ WF_vars(WorkerStep)

\* the huts of the batch whose request has been performed
FetchedHuts == {thread.huts_list[i] : i \in 1..thread.done}

\* the worker is in its loop and the cancel flag is set
CancelledInLoop == model.results_cancelled /\ thread.pc \in {"loop", "fetch"}

\* C14: once the cancel flag is set during a batch it stays set until the batch ends;
\* the worker then starts no request except to finish the one in progress, so the
\* number of performed requests grows by at most that one; the merge step merges the
\* results of exactly the huts whose request was performed; retrieval is enabled again
\* only by the completion callback, which ends the batch, and a cancelled batch
\* always reaches it
C14_Cancellation ==
    /\ [][CancelledInLoop =>
             /\ model'.results_cancelled
             /\ thread.pc = "loop" => (thread'.pc # "fetch" /\ thread'.done = thread.done)
             /\ thread.pc = "fetch" => thread'.done <= thread.done + 1]_vars
    /\ [][(thread.pc = "update" /\ thread'.pc = "final") =>
             /\ DOMAIN thread.results = FetchedHuts
             /\ model'.results_dictionary =
                    _update_results_dictionary(model.results_dictionary, thread.results)
             /\ DOMAIN model'.results_dictionary =
                    DOMAIN model.results_dictionary \cup FetchedHuts
             /\ \A index \in DOMAIN model.results_dictionary \ FetchedHuts :
                    model'.results_dictionary[index] = model.results_dictionary[index]]_vars
    /\ [][(~model.retrieve_enabled /\ model'.retrieve_enabled) =>
             (thread.pc = "final" /\ thread'.pc = "idle")]_vars
    /\ (model.results_cancelled /\ thread.pc # "idle")
           ~> (thread.pc = "idle" /\ model.retrieve_enabled)

\* C14 witness: a batch of two huts was cancelled during the first request; the worker
\* has left the loop with one request performed and merged the result of hut 1 alone
C14_Witness ==
    /\ model.results_cancelled
    /\ thread.pc = "final"
    /\ thread.huts_list = <<1, 2>>
    /\ thread.done = 1
    /\ DOMAIN thread.results = {1}
    /\ DOMAIN model.results_dictionary = {1}

\* C14 witness of a cancellation before the first request: nothing was fetched and
\* nothing is merged
C14_WitnessBeforeFirst ==
    /\ model.results_cancelled
    /\ thread.pc = "final"
    /\ Len(thread.huts_list) > 0
    /\ thread.done = 0
    /\ model.results_dictionary = EmptyDict


----------------------------------------------------------------------------
(* Specification of the batches that command_update_results can start: for the   *)
(* displayed huts, for the selected huts, or for a list of indexes given by the   *)
(* caller, which can be empty or hold an index that is not in the catalog        *)

\* an index that no hut of the catalog has
UnknownHut == Len(HutIds) + 1

BatchIndexes == {<< >>, <<1>>, <<1, 2>>, <<UnknownHut>>, <<1, UnknownHut>>}

NextBatch ==
    \/ \E indexes \in BatchIndexes : CommandUpdateResults("huts", indexes)
    \/ CommandUpdateResults("selected", << >>)
    \/ AddToSelected(2)
    \/ CancelResults
    \/ WorkerCheckCancelled
    \/ \E result \in RetrieveResults : WorkerRequest(result)
    \/ WorkerKeyError
    \/ WorkerLoopExit
    \/ WorkerUpdate
    \/ WorkerFinal

SpecBatch == Init /\ [][NextBatch]_vars /\ WF_vars(WorkerStep \/ WorkerKeyError)

\* C15: every batch that has been started eventually completes: the completion
\* callback is invoked, which leaves the worker idle and retrieval enabled again
C15_BatchCompletes ==
    (thread.pc # "idle") ~> (thread.pc = "idle" /\ model.retrieve_enabled)


----------------------------------------------------------------------------
(* Properties of the order of huts with missing data                             *)

\* the hut has no stored result, a stored error, or a request date without places
MissingData(m, index) ==
    \/ index \notin DOMAIN m.results_dictionary
    \/ m.results_dictionary[index].error # None
    \/ ~(Range(request_dates(m)) \subseteq DOMAIN m.results_dictionary[index].places)

\* C16: when the displayed list is sorted by available or by a room type, every hut
\* with missing data comes before (ascending) or after (descending) every hut with
\* data whose value of the key is 0 or more
C16_MissingDataRankedBelowZero ==
    model.sort_displayed_key \in {"available"} \cup RoomTypes =>
        \A i, j \in 1..Len(model.displayed) :
            LET missing == model.displayed[i]
                other == model.displayed[j]
            IN  (/\ MissingData(model, missing)
                 /\ ~MissingData(model, other)
                 /\ SortValue(model, model.sort_displayed_key, other) >= 0)
                => IF model.sort_displayed_ascending THEN i < j ELSE i > j

\* the same for the room types alone
C16_RoomKeysOnly ==
    model.sort_displayed_key \in RoomTypes =>
        \A i, j \in 1..Len(model.displayed) :
            (/\ MissingData(model, model.displayed[i])
             /\ ~MissingData(model, model.displayed[j])
             /\ SortValue(model, model.sort_displayed_key, model.displayed[j]) >= 0)
            => IF model.sort_displayed_ascending THEN i < j ELSE i > j


----------------------------------------------------------------------------
(* HutsModel._load_huts_dictionary: the lines that csv.reader yields from the    *)
(* catalog file are lists of strings; a blank line of the file is the empty list *)

_SKIP_CODE == "SKIP"

MaxLines == 3

\* int() and float() of the strings that are numbers
Numbers == ("1" :> 1) @@ ("2" :> 2) @@ ("8" :> 8) @@ ("46" :> 46) @@ ("2000" :> 2000)

\* distutils.util.strtobool of the strings it accepts
strtobool ==
    ("y" :> 1) @@ ("yes" :> 1) @@ ("t" :> 1) @@ ("true" :> 1) @@ ("on" :> 1) @@ ("1" :> 1)
    @@ ("n" :> 0) @@ ("no" :> 0) @@ ("f" :> 0) @@ ("false" :> 0) @@ ("off" :> 0) @@ ("0" :> 0)

\* a line of the catalog with the given id, self_catering, lat, lon and height
CatalogLine(id_no, self_catering, lat, lon, height) ==
    <<id_no, "name", "country", "region", "range", self_catering, lat, lon, height, "de">>

GoodLine(id_no) == CatalogLine(id_no, "yes", "46", "8", "2000")

\* the lines drawn for the file: well-formed lines, a blank line, lines with one, two,
\* nine and eleven fields, lines with a field that cannot be converted, a line to skip
FileLines ==
    {GoodLine("1"), GoodLine("2"),
     << >>,
     <<"1">>,
     <<"1", "name">>,
     SubSeq(GoodLine("1"), 1, 9),
     GoodLine("1") \o <<"extra">>,
     CatalogLine("x", "yes", "46", "8", "2000"),
     CatalogLine("1", "maybe", "46", "8", "2000"),
     CatalogLine("1", "yes", "north", "8", "2000"),
     CatalogLine("1", "yes", "46", "east", "2000"),
     CatalogLine("1", "yes", "46", "8", "high"),
     <<"", _SKIP_CODE>>}

RECURSIVE SeqsUpTo(_, _)
SeqsUpTo(S, n) ==
    IF n = 0 THEN {<< >>}
    ELSE LET shorter == SeqsUpTo(S, n - 1)
         IN  shorter \cup {Append(q, x) : q \in {q \in shorter : Len(q) = n - 1}, x \in S}

\* one iteration of "for line in csv.reader(tsv, dialect='excel-tab')": line[1] of a
\* line with fewer than two fields raises IndexError, which no except clause of the
\* method catches; the unpacking of a line that has not ten fields and the
\* conversions raise ValueError, which is recorded
_load_line(l) ==
    LET line == l.lines[l.next]
        advanced == [l EXCEPT !.next = @ + 1]
        recorded == [advanced EXCEPT !.errors = Append(@, [type |-> ValueError, line |-> line])]
    IN  IF Len(line) < 2 THEN [l EXCEPT !.exception = "IndexError"]
        ELSE IF line[2] = _SKIP_CODE THEN advanced
        ELSE IF Len(line) # 10 THEN recorded
        ELSE IF line[6] \notin DOMAIN strtobool THEN recorded
        ELSE IF \E i \in {7, 8, 9} : line[i] \notin DOMAIN Numbers THEN recorded
        ELSE IF line[1] \notin DOMAIN Numbers THEN recorded
        ELSE [advanced EXCEPT !._huts_dictionary =
                 (Numbers[line[1]] :>
                     [name |-> line[2], country |-> line[3], region |-> line[4],
                      mountain_range |-> line[5], self_catering |-> strtobool[line[6]],
                      lat |-> Numbers[line[7]], lon |-> Numbers[line[8]],
                      height |-> Numbers[line[9]], lang_code |-> line[10]]) @@ @]

LoadLine ==
    /\ loader.exception = None
    /\ loader.next <= Len(loader.lines)
    /\ loader' = _load_line(loader)
    /\ UNCHANGED <<model, thread, clock, ncommands, hut_info, tiles, navmap, pool>>

\* the loader at the first line of a file of up to MaxLines lines
InitLoader ==
    /\ model = InitModel
    /\ thread = IdleThread
    /\ clock = 0
    /\ ncommands = 0
    /\ hut_info = NoHutInfo
    /\ tiles = NoCluster
    /\ navmap = NoMap
    /\ pool = << >>
    /\ \E lines \in SeqsUpTo(FileLines, MaxLines) : loader = [NoFile EXCEPT !.lines = lines]

SpecLoader == InitLoader /\ [][LoadLine]_vars

\* the line has the ten fields of a hut with an id, a latitude, a longitude and a
\* height that are numbers and a boolean string
WellFormed(line) ==
    /\ Len(line) = 10
    /\ \A i \in {1, 7, 8, 9} : line[i] \in DOMAIN Numbers
    /\ line[6] \in DOMAIN strtobool

\* the line is marked to be skipped
Skipped(line) == Len(line) >= 2 /\ line[2] = _SKIP_CODE

Malformed(line) == ~WellFormed(line) /\ ~Skipped(line)

LoaderFinished == loader.exception # None \/ loader.next > Len(loader.lines)

\* C17: no exception leaves the loader, and when it has finished every malformed line
\* of the file is in the errors list and the hut of every well-formed line is in the
\* catalog
C17_MalformedLinesSkipped ==
    /\ loader.exception = None
    /\ LoaderFinished =>
          \A i \in 1..Len(loader.lines) :
              LET line == loader.lines[i]
              IN  /\ Malformed(line) => \E e \in 1..Len(loader.errors) : loader.errors[e].line = line
                  /\ WellFormed(line) => Numbers[line[1]] \in DOMAIN loader._huts_dictionary

\* the same for the files in which every line has at least two fields
C17_TwoFieldsOrMore ==
    (\A i \in 1..Len(loader.lines) : Len(loader.lines[i]) >= 2) =>
        /\ loader.exception = None
        /\ LoaderFinished =>
              /\ Len(loader.errors) =
                     Cardinality({i \in 1..Len(loader.lines) : Malformed(loader.lines[i])})
              /\ \A i \in 1..Len(loader.lines) :
                     LET line == loader.lines[i]
                     IN  /\ Malformed(line) =>
                                \E e \in 1..Len(loader.errors) : loader.errors[e].line = line
                         /\ WellFormed(line) =>
                                Numbers[line[1]] \in DOMAIN loader._huts_dictionary


----------------------------------------------------------------------------
(* map_tools: WebMercator and _TilesCluster.  Latitudes and longitudes are in    *)
(* hundredths of a degree, as in the catalog.                                    *)

_TILE_SIZE == 256

_PIXEL_BORDER == 20

_MIN_ZOOM == 6

\* 2 ** zoom
RECURSIVE Pow2(_)
Pow2(n) == IF n = 0 THEN 1 ELSE 2 * Pow2(n - 1)

\* (1 - log(tan(lat) + 1 / cos(lat)) / pi) / 2 of _deg_2_webmercator, in units of
\* 2 ** -20, for the latitudes of the boxes
MercatorY ==
    (4500 :> 377199) @@ (4600 :> 373043) @@ (4700 :> 368811) @@ (4800 :> 364500)
    @@ (4900 :> 360104)

\* WebMercator.deg_2_pixel: int(x_web * _TILE_SIZE), int(y_web * _TILE_SIZE)
deg_2_pixel(lat_deg, lon_deg, zoom) ==
    [x |-> ((lon_deg + 18000) * Pow2(zoom) * (_TILE_SIZE \div 8)) \div (36000 \div 8),
     y |-> (MercatorY[lat_deg] * Pow2(zoom)) \div (Pow2(20) \div _TILE_SIZE)]

\* WebMercator.pixel_2_tile
pixel_2_tile(x_pixel, y_pixel) == [x |-> x_pixel \div _TILE_SIZE, y |-> y_pixel \div _TILE_SIZE]

\* _TilesCluster.configure_cache after config.load() has read TILES_CACHE
configure_cache(t, TILES_CACHE) ==
    [t EXCEPT !.TILES_CACHE = TILES_CACHE,
              !._tiles_cache_limit = TILES_CACHE,
              !._tiles_caching = (~IsNone(TILES_CACHE) /\ Val(TILES_CACHE) > 0)]

\* the pair (minimum, maximum) of an axis after "if size is not None and ...:
\* minimum -= (size - delta) // 2; maximum = minimum + size"
Resize(minimum, maximum, size) ==
    LET resized == minimum - ((Val(size) - (maximum - minimum)) \div 2)
    IN  <<resized, resized + Val(size)>>

\* _TilesCluster._update_limits
_update_limits(c, lat_min, lat_max, lon_min, lon_max, x_pixel_size, y_pixel_size, size_type) ==
    LET upper_left == deg_2_pixel(lat_max, lon_min, c.zoom)
        lower_right == deg_2_pixel(lat_min, lon_max, c.zoom)
        x_pixel_crop_min == upper_left.x - c._x_pixel_min - _PIXEL_BORDER
        x_pixel_crop_max == lower_right.x - c._x_pixel_min + _PIXEL_BORDER
        y_pixel_crop_min == upper_left.y - c._y_pixel_min - _PIXEL_BORDER
        y_pixel_crop_max == lower_right.y - c._y_pixel_min + _PIXEL_BORDER
        x == IF /\ ~IsNone(x_pixel_size)
                /\ \/ size_type = "min" /\ x_pixel_crop_max - x_pixel_crop_min < Val(x_pixel_size)
                   \/ size_type = "exact"
             THEN Resize(x_pixel_crop_min, x_pixel_crop_max, x_pixel_size)
             ELSE <<x_pixel_crop_min, x_pixel_crop_max>>
        y == IF /\ ~IsNone(y_pixel_size)
                /\ \/ size_type = "min" /\ y_pixel_crop_max - y_pixel_crop_min < Val(y_pixel_size)
                   \/ size_type = "exact"
             THEN Resize(y_pixel_crop_min, y_pixel_crop_max, y_pixel_size)
             ELSE <<y_pixel_crop_min, y_pixel_crop_max>>
    IN  [c EXCEPT !._x_pixel_crop_min = x[1], !._x_pixel_crop_max = x[2],
                  !._y_pixel_crop_min = y[1], !._y_pixel_crop_max = y[2]]

\* product(range(x_tile_min, x_tile_max + 1), range(y_tile_min, y_tile_max + 1)) with
\* the zoom: the keys of the tiles of a cluster in the order of the loop
TilesOfCluster(zoom, x_tile_min, x_tile_max, y_tile_min, y_tile_max) ==
    LET nx == x_tile_max + 1 - x_tile_min
        ny == y_tile_max + 1 - y_tile_min
    IN  IF nx <= 0 \/ ny <= 0 THEN << >>
        ELSE [k \in 1..(nx * ny) |->
                 <<zoom, x_tile_min + ((k - 1) \div ny), y_tile_min + ((k - 1) % ny)>>]

\* the purge of _load_cluster: popitem(last=False), _tiles_cache_limit // 2 times
Purge(cached_tiles, limit) ==
    SubSeq(cached_tiles, (limit \div 2) + 1, Len(cached_tiles))

\* _TilesCluster._load_cluster for the cluster c, t being the class attributes
_load_cluster(t, c, lat_min, lat_max, lon_min, lon_max, min_x_pixel_size, min_y_pixel_size) ==
    LET lower_left == deg_2_pixel(lat_min, lon_min, c.zoom)
        upper_right == deg_2_pixel(lat_max, lon_max, c.zoom)
        x_pixel_web_min == lower_left.x - _PIXEL_BORDER
        x_pixel_web_max == upper_right.x + _PIXEL_BORDER
        y_pixel_web_min == upper_right.y - _PIXEL_BORDER
        y_pixel_web_max == lower_left.y + _PIXEL_BORDER
        x == IF ~IsNone(min_x_pixel_size)
                /\ x_pixel_web_max - x_pixel_web_min < Val(min_x_pixel_size)
             THEN Resize(x_pixel_web_min, x_pixel_web_max, min_x_pixel_size)
             ELSE <<x_pixel_web_min, x_pixel_web_max>>
        y == IF ~IsNone(min_y_pixel_size)
                /\ y_pixel_web_max - y_pixel_web_min < Val(min_y_pixel_size)
             THEN Resize(y_pixel_web_min, y_pixel_web_max, min_y_pixel_size)
             ELSE <<y_pixel_web_min, y_pixel_web_max>>
        tile_min == pixel_2_tile(x[1], y[1])
        tile_max == pixel_2_tile(x[2], y[2])
        needed == TilesOfCluster(c.zoom, tile_min.x, tile_max.x, tile_min.y, tile_max.y)
        InCache(key) == key \in Range(t._cached_tiles)
        NotInCache(key) == ~InCache(key)
        read == SelectSeq(needed, NotInCache)
        cached == IF t._tiles_caching THEN t._cached_tiles \o read ELSE t._cached_tiles
    IN  [t EXCEPT !.read_tiles = read,
                  !.cache_hits = SelectSeq(needed, InCache),
                  !._cached_tiles =
                      IF t._tiles_caching /\ Len(cached) > Val(t._tiles_cache_limit)
                      THEN Purge(cached, Val(t._tiles_cache_limit)) ELSE cached,
                  !.cluster =
                      Some([c EXCEPT !._x_pixel_min = tile_min.x * _TILE_SIZE,
                                     !._y_pixel_min = tile_min.y * _TILE_SIZE,
                                     !._x_pixel_max = (tile_max.x + 1) * _TILE_SIZE,
                                     !._y_pixel_max = (tile_max.y + 1) * _TILE_SIZE,
                                     !.loaded = TRUE])]

\* the crop window of the cluster is not inside its image
OutOfCluster(c) ==
    \/ c._x_pixel_crop_min < 0
    \/ c._y_pixel_crop_min < 0
    \/ c._x_pixel_crop_max > c._x_pixel_max - c._x_pixel_min
    \/ c._y_pixel_crop_max > c._y_pixel_max - c._y_pixel_min

\* _TilesCluster.__init__
NewTilesCluster(t, lat_min, lat_max, lon_min, lon_max, zoom, x_pixel_size, y_pixel_size, size_type) ==
    LET c == [zoom |-> zoom, loaded |-> FALSE,
              _x_pixel_crop_min |-> None, _x_pixel_crop_max |-> None,
              _y_pixel_crop_min |-> None, _y_pixel_crop_max |-> None,
              _x_pixel_min |-> None, _x_pixel_max |-> None,
              _y_pixel_min |-> None, _y_pixel_max |-> None]
        t2 == _load_cluster(t, c, lat_min, lat_max, lon_min, lon_max, x_pixel_size, y_pixel_size)
    IN  [t2 EXCEPT !.cluster =
            Some(_update_limits(Val(@), lat_min, lat_max, lon_min, lon_max,
                                x_pixel_size, y_pixel_size, size_type))]

\* update_lat_lon reloading the cluster at every call
update_lat_lon_always_loading(t, lat_min, lat_max, lon_min, lon_max, x_pixel_size, y_pixel_size, size_type) ==
    NewTilesCluster(t, lat_min, lat_max, lon_min, lon_max, Val(t.cluster).zoom,
                    x_pixel_size, y_pixel_size, size_type)

\* _TilesCluster.update_lat_lon; loaded tells whether the call has loaded the cluster
update_lat_lon(t, lat_min, lat_max, lon_min, lon_max, x_pixel_size, y_pixel_size, size_type) ==
    LET c == _update_limits([Val(t.cluster) EXCEPT !.loaded = FALSE], lat_min, lat_max, lon_min,
                            lon_max, x_pixel_size, y_pixel_size, size_type)
    IN  IF OutOfCluster(c)
        THEN LET t2 == _load_cluster(t, c, lat_min, lat_max, lon_min, lon_max,
                                     x_pixel_size, y_pixel_size)
             IN  [t2 EXCEPT !.cluster =
                     Some(_update_limits(Val(@), lat_min, lat_max, lon_min, lon_max,
                                         x_pixel_size, y_pixel_size, size_type))]
        ELSE [t EXCEPT !.cluster = Some(c), !.read_tiles = << >>, !.cache_hits = << >>]


\* the limits of the image of the cluster, if there is one, without its crop window
ImageLimits(cluster) ==
    IF IsNone(cluster) THEN NoValue
    ELSE LET c == Val(cluster)
         IN  Some([zoom |-> c.zoom, loaded |-> FALSE,
                   _x_pixel_crop_min |-> 0, _x_pixel_crop_max |-> 0,
                   _y_pixel_crop_min |-> 0, _y_pixel_crop_max |-> 0,
                   _x_pixel_min |-> c._x_pixel_min, _x_pixel_max |-> c._x_pixel_max,
                   _y_pixel_min |-> c._y_pixel_min, _y_pixel_max |-> c._y_pixel_max])

\* the arguments of a call that gives the area of a cluster
Area(op, lat, lon, x_pixel_size, y_pixel_size, size_type) ==
    [op |-> op, lat_min |-> lat[1], lat_max |-> lat[2], lon_min |-> lon[1], lon_max |-> lon[2],
     x_pixel_size |-> x_pixel_size, y_pixel_size |-> y_pixel_size, size_type |-> size_type]

\* map_tools.configure() after config.load() has read the value of TILES_CACHE
ConfigureCache(TILES_CACHE) ==
    /\ tiles' = [configure_cache(tiles, TILES_CACHE) EXCEPT
                    !.call = [op |-> "configure_cache"], !.before = ImageLimits(tiles.cluster)]
    /\ UNCHANGED <<model, thread, clock, ncommands, hut_info, loader, navmap, pool>>

\* a map creates its cluster: _TilesCluster(lat_min, lat_max, lon_min, lon_max, zoom, ...)
NewCluster(lat, lon, zoom, x_pixel_size, y_pixel_size, size_type) ==
    /\ tiles' = [NewTilesCluster(tiles, lat[1], lat[2], lon[1], lon[2], zoom,
                                 x_pixel_size, y_pixel_size, size_type) EXCEPT
                    !.call = Area("__init__", lat, lon, x_pixel_size, y_pixel_size, size_type),
                    !.before = NoValue]
    /\ UNCHANGED <<model, thread, clock, ncommands, hut_info, loader, navmap, pool>>

\* a map moves the area of its cluster: update_lat_lon
UpdateLatLon(lat, lon, x_pixel_size, y_pixel_size, size_type) ==
    /\ ~IsNone(tiles.cluster)
    /\ tiles' = [update_lat_lon(tiles, lat[1], lat[2], lon[1], lon[2],
                                x_pixel_size, y_pixel_size, size_type) EXCEPT
                    !.call = Area("update_lat_lon", lat, lon, x_pixel_size, y_pixel_size, size_type),
                    !.before = ImageLimits(tiles.cluster)]
    /\ UNCHANGED <<model, thread, clock, ncommands, hut_info, loader, navmap, pool>>

InitTiles ==
    /\ model = InitModel
    /\ thread = IdleThread
    /\ clock = 0
    /\ ncommands = 0
    /\ hut_info = NoHutInfo
    /\ loader = NoFile
    /\ tiles = NoCluster
    /\ navmap = NoMap
    /\ pool = << >>

----------------------------------------------------------------------------
(* Specification of the tile cache: clusters of one row of tiles at one zoom     *)
(* level, with the cache reconfigured between the loads                          *)

MaxCache == 3

\* the values of TILES_CACHE: not set, 0, and the limits up to MaxCache
CacheLimits == {NoValue} \cup {Some(limit) : limit \in 0..MaxCache}

\* areas (latitudes, longitudes) of one to four tiles
CacheAreas ==
    {<<4600, 4700>>} \X {<<800, 1000>>, <<600, 1200>>, <<1200, 1700>>, <<600, 1700>>}

NextCache ==
    \/ \E TILES_CACHE \in CacheLimits : ConfigureCache(TILES_CACHE)
    \/ \E area \in CacheAreas :
           NewCluster(area[1], area[2], _MIN_ZOOM, NoValue, NoValue, "exact")
    \/ \E area \in CacheAreas :
           UpdateLatLon(area[1], area[2], NoValue, NoValue, "exact")

SpecCache == InitTiles /\ [][NextCache]_vars

\* the last call has loaded the tiles of a cluster
ClusterLoaded ==
    /\ tiles.call.op \in {"__init__", "update_lat_lon"}
    /\ Val(tiles.cluster).loaded

\* C18: after a cluster load with caching enabled the cache holds at most
\* _tiles_cache_limit entries
C18_CacheBounded ==
    (ClusterLoaded /\ tiles._tiles_caching) =>
        Len(tiles._cached_tiles) <= Val(tiles._tiles_cache_limit)

\* C19: after a cluster load with caching disabled no tile was taken from the cache
\* and the cache holds no tile
C19_NoCacheWhenDisabled ==
    (ClusterLoaded /\ ~tiles._tiles_caching) =>
        /\ tiles.cache_hits = << >>
        /\ tiles._cached_tiles = << >>


----------------------------------------------------------------------------
(* Specification of the tile cluster of a map: clusters created at two zoom       *)
(* levels and moved over areas with and without a requested size in pixels        *)

ClusterZooms == {_MIN_ZOOM, _MIN_ZOOM + 1}

\* the areas (latitudes, longitudes), each a pair of a minimum and a maximum
ClusterAreas ==
    {area \in ({4500, 4900} \X {4500, 4900}) \X ({600, 1700} \X {600, 1700}) :
        area[1][1] <= area[1][2] /\ area[2][1] <= area[2][2]}

\* the requests (x_pixel_size, y_pixel_size, size_type): no size, a size smaller than
\* the smallest area, and a size larger than the largest area at the lower zoom and
\* smaller than it at the higher zoom
ClusterSizes ==
    {<<NoValue, NoValue, "exact">>,
     <<Some(100), Some(100), "exact">>, <<Some(100), Some(100), "min">>,
     <<Some(600), Some(600), "exact">>, <<Some(600), Some(600), "min">>}

NextCluster ==
    \/ \E area \in ClusterAreas, zoom \in ClusterZooms, size \in ClusterSizes :
           NewCluster(area[1], area[2], zoom, size[1], size[2], size[3])
    \/ \E area \in ClusterAreas, size \in ClusterSizes :
           UpdateLatLon(area[1], area[2], size[1], size[2], size[3])

SpecCluster == InitTiles /\ [][NextCluster]_vars

\* the crop window that _update_limits computes for the last call in the cluster
\* image as it was before the call
CropBeforeLoad ==
    _update_limits(Val(tiles.before), tiles.call.lat_min, tiles.call.lat_max,
                   tiles.call.lon_min, tiles.call.lon_max,
                   tiles.call.x_pixel_size, tiles.call.y_pixel_size, tiles.call.size_type)

\* C20: whenever there is a cluster its crop window lies inside its image on both
\* axes, and a call of update_lat_lon has loaded the cluster only if the crop window
\* computed for the call did not lie inside the image the cluster had before
C20_CropInsideCluster ==
    ~IsNone(tiles.cluster) =>
        LET c == Val(tiles.cluster)
        IN  /\ 0 <= c._x_pixel_crop_min
            /\ 0 <= c._y_pixel_crop_min
            /\ c._x_pixel_crop_max <= c._x_pixel_max - c._x_pixel_min
            /\ c._y_pixel_crop_max <= c._y_pixel_max - c._y_pixel_min
            /\ (tiles.call.op = "update_lat_lon" /\ c.loaded) =>
                   LET crop == CropBeforeLoad
                       before == Val(tiles.before)
                   IN  \/ crop._x_pixel_crop_min < 0
                       \/ crop._y_pixel_crop_min < 0
                       \/ crop._x_pixel_crop_max > before._x_pixel_max - before._x_pixel_min
                       \/ crop._y_pixel_crop_max > before._y_pixel_max - before._y_pixel_min

\* C20 witness: update_lat_lon with an exact size has moved the crop window to an area
\* that the image of the cluster covers, without loading
C20_Witness ==
    /\ tiles.call.op = "update_lat_lon"
    /\ tiles.call.size_type = "exact"
    /\ tiles.call.x_pixel_size = Some(100)
    /\ ~Val(tiles.cluster).loaded
    /\ Val(tiles.cluster)._x_pixel_crop_min > 256
    /\ Val(tiles.cluster)._x_pixel_crop_max - Val(tiles.cluster)._x_pixel_crop_min = 100

\* C20 witness of a load: update_lat_lon with a minimum size larger than the area has
\* loaded a cluster with another image, and the crop window has the requested size
C20_WitnessLoaded ==
    /\ tiles.call.op = "update_lat_lon"
    /\ tiles.call.size_type = "min"
    /\ tiles.call.x_pixel_size = Some(600)
    /\ Val(tiles.cluster).loaded
    /\ ImageLimits(tiles.cluster) # tiles.before
    /\ Val(tiles.cluster)._x_pixel_crop_max - Val(tiles.cluster)._x_pixel_crop_min = 600


----------------------------------------------------------------------------
(* map_tools: _GenericMap, NavigableMap and the zoom of HutMap.  The cluster of  *)
(* the NavigableMap is tiles.cluster; _huts_data is a dict, order is the order   *)
(* of its keys.                                                                  *)

_HUT_ICON_SIZE == <<25, 25>>

\* NavigableMap._check_overlap with the icon footprint doubled
_check_overlap_wide(x_first, y_first, x_second, y_second) ==
    LET delta_x == IF x_first >= x_second THEN x_first - x_second ELSE x_second - x_first
        delta_y == IF y_first >= y_second THEN y_first - y_second ELSE y_second - y_first
    IN  delta_x < 2 * _HUT_ICON_SIZE[1] /\ delta_y < 2 * _HUT_ICON_SIZE[2]

\* NavigableMap._check_overlap
_check_overlap(x_first, y_first, x_second, y_second) ==
    LET delta_x == IF x_first >= x_second THEN x_first - x_second ELSE x_second - x_first
        delta_y == IF y_first >= y_second THEN y_first - y_second ELSE y_second - y_first
    IN  delta_x < _HUT_ICON_SIZE[1] /\ delta_y < _HUT_ICON_SIZE[2]

\* _GenericMap._zoom of the NavigableMap: the zoom of its cluster
_zoom(t) == Val(t.cluster).zoom

\* _TilesCluster.deg_2_pixel: pixel coordinates relative to the crop window
cluster_deg_2_pixel(c, lat, lon) ==
    LET web == deg_2_pixel(lat, lon, c.zoom)
    IN  [x |-> web.x - c._x_pixel_min - c._x_pixel_crop_min,
         y |-> web.y - c._y_pixel_min - c._y_pixel_crop_min]

\* NavigableMap._compute_huts_pixel_positions
_compute_huts_pixel_positions(nav, t) ==
    [nav EXCEPT !._huts_data =
        [index \in DOMAIN @ |->
            LET pixel == cluster_deg_2_pixel(Val(t.cluster), @[index].lat, @[index].lon)
            IN  [@[index] EXCEPT !.x = pixel.x, !.y = pixel.y]]]

\* the first index of group_indexes whose hut overlaps the hut, or no value
RECURSIVE FirstOverlap(_, _, _)
FirstOverlap(huts_data, group_indexes, index) ==
    IF group_indexes = << >> THEN NoValue
    ELSE LET index_check == Head(group_indexes)
         IN  IF _check_overlap(huts_data[index].x, huts_data[index].y,
                               huts_data[index_check].x, huts_data[index_check].y)
             THEN Some(index_check)
             ELSE FirstOverlap(huts_data, Tail(group_indexes), index)

\* _huts_grouping in which every hut starts a group of its own
RECURSIVE _huts_grouping_all_owners(_, _, _)
_huts_grouping_all_owners(huts_data, left, group_indexes) ==
    IF left = << >> THEN huts_data
    ELSE LET index == Head(left)
             found == FirstOverlap(huts_data, group_indexes, index)
             own == [huts_data EXCEPT ![index].group = Append(@, index)]
         IN  IF IsNone(found)
             THEN _huts_grouping_all_owners(own, Tail(left), Append(group_indexes, index))
             ELSE _huts_grouping_all_owners([own EXCEPT ![Val(found)].group = Append(@, index)],
                                            Tail(left), Append(group_indexes, index))

\* NavigableMap._huts_grouping: the loop over the items of _huts_data that are left
RECURSIVE _huts_grouping(_, _, _)
_huts_grouping(huts_data, left, group_indexes) ==
    IF left = << >> THEN huts_data
    ELSE LET index == Head(left)
             found == FirstOverlap(huts_data, group_indexes, index)
         IN  IF IsNone(found)
             THEN _huts_grouping([huts_data EXCEPT ![index].group = Append(@, index)],
                                 Tail(left), Append(group_indexes, index))
             ELSE _huts_grouping([huts_data EXCEPT ![Val(found)].group = Append(@, index)],
                                 Tail(left), group_indexes)

\* NavigableMap._compute_huts_groups
_compute_huts_groups(nav, t) ==
    LET cleared == [index \in DOMAIN nav._huts_data |-> [nav._huts_data[index] EXCEPT !.group = << >>]]
    IN  [nav EXCEPT !._huts_data =
            IF _zoom(t) < nav._max_zoom
            THEN _huts_grouping(cleared, nav.order, << >>)
            ELSE [index \in DOMAIN cleared |-> [cleared[index] EXCEPT !.group = <<index>>]]]

\* the loop "while True" of _update_cluster from the given zoom: the zoom at which it
\* breaks.  2.0 ** zoom raises OverflowError when an area of one point lets the loop
\* run past every zoom level.
OverflowError == "OverflowError"

RECURSIVE ZoomLoop(_, _, _, _, _, _)
ZoomLoop(nav, lat_min, lat_max, lon_min, lon_max, zoom) ==
    LET lower_left == deg_2_pixel(lat_min, lon_min, zoom)
        upper_right == deg_2_pixel(lat_max, lon_max, zoom)
        delta_x_pixel == upper_right.x - lower_left.x
        delta_y_pixel == lower_left.y - upper_right.y
    IN  IF zoom = nav._max_zoom + 1 \/ delta_x_pixel > nav._width \/ delta_y_pixel > nav._height
        THEN Some(zoom)
        ELSE IF zoom > nav._max_zoom + 1 /\ lat_min = lat_max /\ lon_min = lon_max
        THEN NoValue
        ELSE ZoomLoop(nav, lat_min, lat_max, lon_min, lon_max, zoom + 1)

\* _update_cluster with the search of the zoom starting at _min_zoom
_update_cluster_from_min_zoom(nav, t, lat_min, lat_max, lon_min, lon_max, force_zoom) ==
    LET found == IF ~IsNone(force_zoom) THEN Some(Val(force_zoom) + 1)
                 ELSE ZoomLoop(nav, lat_min, lat_max, lon_min, lon_max, nav._min_zoom)
    IN  IF IsNone(found) THEN [navmap |-> nav, tiles |-> t, exception |-> OverflowError]
        ELSE LET zoom == Val(found) - 1
                 t2 == IF ~IsNone(t.cluster) /\ zoom = _zoom(t)
                       THEN update_lat_lon(t, lat_min, lat_max, lon_min, lon_max,
                                           Some(nav._width), Some(nav._height), "exact")
                       ELSE NewTilesCluster(t, lat_min, lat_max, lon_min, lon_max, zoom,
                                            Some(nav._width), Some(nav._height), "exact")
             IN  [navmap |-> _compute_huts_groups(_compute_huts_pixel_positions(nav, t2), t2),
                  tiles |-> t2, exception |-> None]

\* NavigableMap._update_cluster; force_zoom is optional
_update_cluster(nav, t, lat_min, lat_max, lon_min, lon_max, force_zoom) ==
    LET found == IF ~IsNone(force_zoom) THEN Some(Val(force_zoom) + 1)
                 ELSE ZoomLoop(nav, lat_min, lat_max, lon_min, lon_max, nav._min_zoom + 1)
    IN  IF IsNone(found) THEN [navmap |-> nav, tiles |-> t, exception |-> OverflowError]
        ELSE LET zoom == Val(found) - 1
                 t2 == IF ~IsNone(t.cluster) /\ zoom = _zoom(t)
                       THEN update_lat_lon(t, lat_min, lat_max, lon_min, lon_max,
                                           Some(nav._width), Some(nav._height), "exact")
                       ELSE NewTilesCluster(t, lat_min, lat_max, lon_min, lon_max, zoom,
                                            Some(nav._width), Some(nav._height), "exact")
             IN  [navmap |-> _compute_huts_groups(_compute_huts_pixel_positions(nav, t2), t2),
                  tiles |-> t2, exception |-> None]

\* NavigableMap.update_zoom_from_point
update_zoom_from_point(nav, t, lat, lon, direction) ==
    LET new_zoom == _zoom(t) + (IF direction > 0 THEN 1 ELSE IF direction < 0 THEN -1 ELSE 0)
    IN  IF new_zoom < nav._min_zoom \/ new_zoom > nav._max_zoom
        THEN [navmap |-> nav, tiles |-> t, exception |-> None]
        ELSE _update_cluster(nav, t, lat, lat, lon, lon, Some(new_zoom))

\* NavigableMap.update_huts_data; huts is the list of the (index, lat, lon) of the dict
update_huts_data(nav, t, huts) ==
    LET indexes == [i \in 1..Len(huts) |-> huts[i][1]]
        huts_data == [index \in Range(indexes) |->
                         LET i == CHOOSE i \in 1..Len(huts) : huts[i][1] = index
                         IN  [lat |-> huts[i][2], lon |-> huts[i][3], x |-> 0, y |-> 0,
                              group |-> << >>]]
        nav2 == [nav EXCEPT !.order = indexes, !._huts_data = huts_data]
    IN  _compute_huts_groups(_compute_huts_pixel_positions(nav2, t), t)

\* get_huts_from_pixel returning the group of the last hut that matches
get_huts_from_pixel_last(nav, x_pixel, y_pixel) ==
    LET Abs(v) == IF v >= 0 THEN v ELSE -v
        Matches(index) ==
            /\ Len(nav._huts_data[index].group) > 0
            /\ Abs(nav._huts_data[index].x - x_pixel) < _HUT_ICON_SIZE[1] \div 2
            /\ Abs(nav._huts_data[index].y - y_pixel) < _HUT_ICON_SIZE[2] \div 2
        matching == SelectSeq(nav.order, Matches)
    IN  IF matching = << >> THEN << >> ELSE nav._huts_data[matching[Len(matching)]].group

\* NavigableMap.get_huts_from_pixel
get_huts_from_pixel(nav, x_pixel, y_pixel) ==
    LET Abs(v) == IF v >= 0 THEN v ELSE -v
        Matches(index) ==
            /\ Len(nav._huts_data[index].group) > 0
            /\ Abs(nav._huts_data[index].x - x_pixel) < _HUT_ICON_SIZE[1] \div 2
            /\ Abs(nav._huts_data[index].y - y_pixel) < _HUT_ICON_SIZE[2] \div 2
        matching == SelectSeq(nav.order, Matches)
    IN  IF matching = << >> THEN << >> ELSE nav._huts_data[Head(matching)].group


\* _GenericMap.__init__: the zoom levels of a map; available is the result of
\* _TilesCluster.check_available_tiles
_GenericMap__init__(nav, default_zoom, min_zoom, max_zoom, available) ==
    LET _min_zoom == Max2(available[1], min_zoom)
        _max_zoom == Min2(available[2], max_zoom)
    IN  [nav EXCEPT !._min_zoom = _min_zoom, !._max_zoom = _max_zoom,
                    !._default_zoom = Max2(Min2(default_zoom, _max_zoom), _min_zoom)]

\* NavigableMap.__init__ and HutMap.__init__, created with the same zoom levels
NavigableMap__init__(pixel_width, pixel_height, default_zoom, min_zoom, max_zoom, default_area, available) ==
    LET zooms == _GenericMap__init__(NoMap, default_zoom, min_zoom, max_zoom, available)
        nav == [zooms EXCEPT
                    !._width = pixel_width, !._height = pixel_height,
                    !.hut_map_zoom = zooms._default_zoom,
                    !.call = [op |-> "__init__", zoom_before |-> 0, area |-> default_area]]
    IN  [navmap |-> nav,
         tiles |-> NewTilesCluster(NoCluster, default_area[1], default_area[2], default_area[3],
                                   default_area[4], nav._default_zoom,
                                   Some(pixel_width), Some(pixel_height), "exact")]

\* the state after a method of the NavigableMap
MapCall(r, op, area) ==
    /\ navmap' = [r.navmap EXCEPT !.call = [op |-> op, zoom_before |-> _zoom(tiles), area |-> area],
                                  !.exception = r.exception,
                                  !.huts_from_pixel = NoValue]
    /\ tiles' = [r.tiles EXCEPT !.call = [op |-> "NavigableMap"], !.before = NoValue]
    /\ UNCHANGED <<model, thread, clock, ncommands, hut_info, loader, pool>>

UpdateHutsData(huts) ==
    MapCall([navmap |-> update_huts_data(navmap, tiles, huts), tiles |-> tiles, exception |-> None],
            "update_huts_data", << >>)

UpdateZoomFromPoint(lat, lon, direction) ==
    MapCall(update_zoom_from_point(navmap, tiles, lat, lon, direction),
            "update_zoom_from_point", <<lat, lat, lon, lon>>)

\* update_zoom_from_widget: (lat, lon) is what get_lat_lon_from_pixel gives for the centre
UpdateZoomFromWidget(lat, lon, direction) ==
    MapCall(update_zoom_from_point(navmap, tiles, lat, lon, direction),
            "update_zoom_from_widget", <<lat, lat, lon, lon>>)

UpdateZoomFromWindow(lat_min, lat_max, lon_min, lon_max) ==
    MapCall(_update_cluster(navmap, tiles, lat_min, lat_max, lon_min, lon_max, NoValue),
            "update_zoom_from_window", <<lat_min, lat_max, lon_min, lon_max>>)

UpdateCenterPoint(lat, lon) ==
    MapCall(_update_cluster(navmap, tiles, lat, lat, lon, lon, Some(_zoom(tiles))),
            "update_center_point", <<lat, lat, lon, lon>>)

GetHutsFromPixel(x_pixel, y_pixel) ==
    /\ navmap' = [navmap EXCEPT
                     !.huts_from_pixel = Some([x |-> x_pixel, y |-> y_pixel,
                                               huts |-> get_huts_from_pixel(navmap, x_pixel, y_pixel)]),
                     !.call = [op |-> "get_huts_from_pixel", zoom_before |-> _zoom(tiles), area |-> << >>],
                     !.exception = None]
    /\ UNCHANGED <<model, thread, clock, ncommands, hut_info, loader, tiles, pool>>

\* HutMap.update_zoom
UpdateZoom(direction) ==
    LET new_zoom == navmap.hut_map_zoom + (IF direction > 0 THEN 1 ELSE IF direction < 0 THEN -1 ELSE 0)
    IN  /\ navmap' = [navmap EXCEPT
                         !.hut_map_zoom = IF new_zoom < navmap._min_zoom \/ new_zoom > navmap._max_zoom
                                          THEN @ ELSE new_zoom,
                         !.call = [op |-> "update_zoom", zoom_before |-> navmap.hut_map_zoom, area |-> << >>],
                         !.exception = None,
                         !.huts_from_pixel = NoValue]
        /\ UNCHANGED <<model, thread, clock, ncommands, hut_info, loader, tiles, pool>>

\* the zoom levels of the configuration and of the tiles on disk
MapZooms ==
    {[default_zoom |-> 6, min_zoom |-> 6, max_zoom |-> 8, available |-> available] :
        available \in {<<6, 9>>, <<6, 6>>, <<7, 8>>, <<9, 9>>}}

MapSize == <<300, 200>>

MapPoints == {<<4600, 800>>, <<4700, 1100>>}

MapWindows ==
    {<<4600, 4600, 800, 800>>, <<4600, 4700, 800, 1100>>, <<4500, 4900, 600, 1700>>}

MapDefaultArea == <<4500, 4800, 600, 1100>>

MapHuts ==
    {<< >>,
     << <<1, _huts_dictionary[1].lat, _huts_dictionary[1].lon>>,
        <<2, _huts_dictionary[2].lat, _huts_dictionary[2].lon>>,
        <<3, _huts_dictionary[3].lat, _huts_dictionary[3].lon>> >>,
     << <<1, 4600, 800>>, <<2, 4600, 840>>, <<3, 4600, 880>> >>,
     << <<3, 4600, 880>>, <<2, 4600, 840>>, <<1, 4600, 800>> >>}

MapOffsets == {<<0, 0>>, <<11, 0>>, <<-12, 0>>, <<0, 12>>}

InitMap ==
    /\ model = InitModel
    /\ thread = IdleThread
    /\ clock = 0
    /\ ncommands = 0
    /\ hut_info = NoHutInfo
    /\ loader = NoFile
    /\ \E z \in MapZooms :
           LET new == NavigableMap__init__(MapSize[1], MapSize[2], z.default_zoom, z.min_zoom,
                                           z.max_zoom, MapDefaultArea, z.available)
           IN  navmap = new.navmap /\ tiles = new.tiles
    /\ pool = << >>

NextMap ==
    \/ \E huts \in MapHuts : UpdateHutsData(huts)
    \/ \E point \in MapPoints, direction \in {-120, 0, 120} :
           UpdateZoomFromPoint(point[1], point[2], direction)
    \/ \E point \in MapPoints, direction \in {-1, 1} :
           UpdateZoomFromWidget(point[1], point[2], direction)
    \/ \E window \in MapWindows : UpdateZoomFromWindow(window[1], window[2], window[3], window[4])
    \/ \E point \in MapPoints : UpdateCenterPoint(point[1], point[2])
    \/ \E index \in DOMAIN navmap._huts_data, offset \in MapOffsets :
           GetHutsFromPixel(navmap._huts_data[index].x + offset[1],
                            navmap._huts_data[index].y + offset[2])
    \/ \E direction \in {-1, 1} : UpdateZoom(direction)

SpecMap == InitMap /\ [][NextMap]_vars



----------------------------------------------------------------------------
\* the group of a hut of the map
GroupOf(index) == navmap._huts_data[index].group

\* a hut is a representative when its group starts with itself
IsRepresentative(index) == Len(GroupOf(index)) > 0 /\ GroupOf(index)[1] = index

\* the marker of the second hut is within the icon footprint of the first
InFootprint(first, second) ==
    LET d == navmap._huts_data
    IN  /\ d[first].x - d[second].x < _HUT_ICON_SIZE[1]
        /\ d[second].x - d[first].x < _HUT_ICON_SIZE[1]
        /\ d[first].y - d[second].y < _HUT_ICON_SIZE[2]
        /\ d[second].y - d[first].y < _HUT_ICON_SIZE[2]

\* the positions in the order of the map of the representatives seen before position k
\* that have the hut at position k in their footprint
EarlierRepresentatives(k) ==
    {j \in 1..(k - 1) : IsRepresentative(navmap.order[j]) /\ InFootprint(navmap.order[j], navmap.order[k])}

\* C21: below the maximum zoom the grouping is first-seen-wins in the order of the huts:
\* a hut within the icon footprint of an earlier representative is appended to the group
\* of the earliest such representative and has an empty group of its own, any other hut
\* is a representative whose group starts with itself; at the maximum zoom every group
\* is the singleton of its hut.
C21_FirstSeenWins ==
    \A k \in 1..Len(navmap.order) :
        LET index == navmap.order[k]
            earlier == EarlierRepresentatives(k)
        IN  IF _zoom(tiles) < navmap._max_zoom
            THEN IF earlier = {}
                 THEN IsRepresentative(index)
                 ELSE /\ GroupOf(index) = << >>
                      /\ \A j \in 1..Len(navmap.order) :
                             index \in Range(GroupOf(navmap.order[j])) <=> j = Min(earlier)
            ELSE GroupOf(index) = <<index>>

\* below the maximum zoom a hut overlaps a hut that joined an earlier group, without
\* being in the footprint of a representative, and is a representative
C21_Witness ==
    /\ _zoom(tiles) < navmap._max_zoom
    /\ \E i, j, k \in 1..Len(navmap.order) :
           /\ i < j /\ j < k
           /\ GroupOf(navmap.order[i]) = <<navmap.order[i], navmap.order[j]>>
           /\ GroupOf(navmap.order[j]) = << >>
           /\ InFootprint(navmap.order[j], navmap.order[k])
           /\ GroupOf(navmap.order[k]) = <<navmap.order[k]>>


----------------------------------------------------------------------------
\* the positions in the order of the map of the huts with a group whose marker is
\* within half the icon size of the pixel on both axes
HutsAtPixel(x_pixel, y_pixel) ==
    {k \in 1..Len(navmap.order) :
        LET hut == navmap._huts_data[navmap.order[k]]
        IN  /\ hut.group # << >>
            /\ hut.x - x_pixel < _HUT_ICON_SIZE[1] \div 2
            /\ x_pixel - hut.x < _HUT_ICON_SIZE[1] \div 2
            /\ hut.y - y_pixel < _HUT_ICON_SIZE[2] \div 2
            /\ y_pixel - hut.y < _HUT_ICON_SIZE[2] \div 2}

\* get_huts_from_pixel has returned the group of the first hut at the pixel, or []
ReturnsFirstGroup ==
    ~IsNone(navmap.huts_from_pixel) =>
        LET r == Val(navmap.huts_from_pixel)
            at_pixel == HutsAtPixel(r.x, r.y)
        IN  r.huts = IF at_pixel = {} THEN << >> ELSE GroupOf(navmap.order[Min(at_pixel)])

\* the pixel positions and the groups of the huts are those of the zoom and of the crop
\* window of the cluster
GroupsAreCurrent ==
    /\ \A index \in DOMAIN navmap._huts_data :
           LET hut == navmap._huts_data[index]
               pixel == cluster_deg_2_pixel(Val(tiles.cluster), hut.lat, hut.lon)
           IN  hut.x = pixel.x /\ hut.y = pixel.y
    /\ _compute_huts_groups(navmap, tiles)._huts_data = navmap._huts_data

\* get_huts_from_pixel was called with the pixel of the marker of the representative
ClickOn(index) ==
    /\ ~IsNone(navmap.huts_from_pixel)
    /\ IsRepresentative(index)
    /\ Val(navmap.huts_from_pixel).x = navmap._huts_data[index].x
    /\ Val(navmap.huts_from_pixel).y = navmap._huts_data[index].y

\* C22 as stated, for the click on a marker: a click on the pixel of a representative
\* returns the whole group of that representative.
C22_OwnPixelReturnsGroup ==
    \A index \in DOMAIN navmap._huts_data :
        ClickOn(index) => Val(navmap.huts_from_pixel).huts = GroupOf(index)

\* C22: get_huts_from_pixel returns the group of the first hut in the order of the map
\* that has a group and whose marker is strictly within half the icon size of the pixel
\* on both axes, and [] when there is none; the groups and the positions it reads are
\* those of the current zoom and centre after any sequence of zoom, pan and
\* update_huts_data; below the maximum zoom a click on the pixel of a representative
\* returns the whole group of that representative.
C22_FirstGroupAtPixel ==
    /\ ReturnsFirstGroup
    /\ GroupsAreCurrent
    /\ _zoom(tiles) < navmap._max_zoom => C22_OwnPixelReturnsGroup

\* below the maximum zoom, after zooming, a click on the marker of a representative
\* has returned a group of two huts
C22_Witness ==
    /\ _zoom(tiles) < navmap._max_zoom
    /\ _zoom(tiles) # navmap._default_zoom
    /\ \E index \in DOMAIN navmap._huts_data :
           ClickOn(index) /\ Len(Val(navmap.huts_from_pixel).huts) = 2


----------------------------------------------------------------------------
\* the zoom of the NavigableMap and the zoom of the HutMap are within the zoom levels
\* of the maps
ZoomInBounds ==
    /\ navmap._min_zoom <= _zoom(tiles) /\ _zoom(tiles) <= navmap._max_zoom
    /\ navmap._min_zoom <= navmap.hut_map_zoom /\ navmap.hut_map_zoom <= navmap._max_zoom

\* the last call of update_zoom_from_point or update_zoom_from_widget has changed the
\* zoom by at most one level
OneStep ==
    navmap.call.op \in {"update_zoom_from_point", "update_zoom_from_widget", "update_zoom"} =>
        LET zoom == IF navmap.call.op = "update_zoom" THEN navmap.hut_map_zoom ELSE _zoom(tiles)
        IN  zoom - navmap.call.zoom_before \in {-1, 0, 1}

\* C23: after any sequence of update_zoom_from_point, update_zoom_from_widget,
\* update_zoom_from_window and update_center_point calls on a NavigableMap, and of
\* update_zoom calls on a HutMap, the zoom is between min_zoom and max_zoom, the
\* configured levels clamped against the levels available on disk; each point or
\* widget call changes the zoom by at most one level.
C23_ZoomBound == ZoomInBounds /\ OneStep

\* the bound holds when a level is both configured and available on disk
C23_ZoomBoundOfNonEmptyRange == navmap._min_zoom <= navmap._max_zoom => C23_ZoomBound

\* the zoom has changed by one level inside the levels of the map
C23_ZoomChanged ==
    /\ navmap._min_zoom < navmap._max_zoom
    /\ navmap.call.op \in {"update_zoom_from_point", "update_zoom_from_widget"}
    /\ navmap.call.zoom_before # _zoom(tiles)


----------------------------------------------------------------------------
\* the pixel width and height of the area at the zoom level do not exceed the canvas
Fits(area, zoom) ==
    LET lower_left == deg_2_pixel(area[1], area[3], zoom)
        upper_right == deg_2_pixel(area[2], area[4], zoom)
    IN  /\ upper_right.x - lower_left.x <= navmap._width
        /\ lower_left.y - upper_right.y <= navmap._height

\* the last call is an update_zoom_from_window that has returned
WindowZoomed == navmap.call.op = "update_zoom_from_window" /\ navmap.exception = None

\* C24 as stated: update_zoom_from_window sets the zoom to the largest level in
\* [min_zoom, max_zoom] at which the width and the height of the box in pixels do not
\* exceed the canvas.
C24_LargestLevelThatFits ==
    WindowZoomed =>
        /\ _zoom(tiles) \in navmap._min_zoom..navmap._max_zoom
        /\ Fits(navmap.call.area, _zoom(tiles))
        /\ \A zoom \in (_zoom(tiles) + 1)..navmap._max_zoom : ~Fits(navmap.call.area, zoom)

\* C24: update_zoom_from_window sets the zoom to the level below the first level above
\* min_zoom that is max_zoom + 1 or at which the box exceeds the canvas; min_zoom itself
\* is not tested.  With min_zoom <= max_zoom this is the largest level of
\* [min_zoom, max_zoom] at which the box fits when it fits at min_zoom, and min_zoom
\* when it does not.  The search ends: with a zoom, or, only when min_zoom > max_zoom
\* and the box is a single point, with OverflowError and the map unchanged.
C24_LevelBelowFirstOverflow ==
    /\ WindowZoomed =>
           /\ _zoom(tiles) >= navmap._min_zoom
           /\ \A zoom \in (navmap._min_zoom + 1).._zoom(tiles) : Fits(navmap.call.area, zoom)
           /\ _zoom(tiles) = navmap._max_zoom \/ ~Fits(navmap.call.area, _zoom(tiles) + 1)
           /\ navmap._min_zoom <= navmap._max_zoom =>
                  /\ _zoom(tiles) <= navmap._max_zoom
                  /\ IF Fits(navmap.call.area, navmap._min_zoom)
                     THEN /\ Fits(navmap.call.area, _zoom(tiles))
                          /\ \A zoom \in (_zoom(tiles) + 1)..navmap._max_zoom :
                                 ~Fits(navmap.call.area, zoom)
                     ELSE _zoom(tiles) = navmap._min_zoom
    /\ navmap.exception # None =>
           /\ navmap.call.op = "update_zoom_from_window"
           /\ navmap.exception = OverflowError
           /\ navmap._min_zoom > navmap._max_zoom
           /\ navmap.call.area[1] = navmap.call.area[2] /\ navmap.call.area[3] = navmap.call.area[4]
           /\ _zoom(tiles) = navmap.call.zoom_before

\* a window has moved the zoom to a level inside the range: the box fits at that level
\* and not at the next
C24_Witness ==
    /\ WindowZoomed
    /\ navmap._min_zoom < _zoom(tiles) /\ _zoom(tiles) < navmap._max_zoom
    /\ _zoom(tiles) # navmap.call.zoom_before
    /\ Fits(navmap.call.area, _zoom(tiles))
    /\ ~Fits(navmap.call.area, _zoom(tiles) + 1)


----------------------------------------------------------------------------
\* the huts whose group holds the hut
OwnersOf(index) == {owner \in DOMAIN navmap._huts_data : index \in Range(GroupOf(owner))}

\* the pixels of the markers of the huts and pixels around them
MarkerPixels ==
    {<<navmap._huts_data[index].x + offset[1], navmap._huts_data[index].y + offset[2]>> :
        index \in DOMAIN navmap._huts_data, offset \in MapOffsets}

\* C27: at every zoom level and after every zoom, pan or update_huts_data the groups
\* that are not empty are a partition of the hut ids (every hut is in exactly one group,
\* once), the first element of each such group is the hut that owns it, and below the
\* maximum zoom no owner is in the footprint of another, so that at most one owner
\* matches a pixel in get_huts_from_pixel.
C27_GroupsPartition ==
    /\ \A index \in DOMAIN navmap._huts_data :
           /\ Cardinality(OwnersOf(index)) = 1
           /\ GroupOf(index) # << >> => GroupOf(index)[1] = index
           /\ \A i, j \in 1..Len(GroupOf(index)) : GroupOf(index)[i] = GroupOf(index)[j] => i = j
           /\ Range(GroupOf(index)) \subseteq DOMAIN navmap._huts_data
    /\ _zoom(tiles) < navmap._max_zoom =>
           /\ \A first, second \in DOMAIN navmap._huts_data :
                  /\ first # second
                  /\ GroupOf(first) # << >>
                  /\ GroupOf(second) # << >>
                  => ~InFootprint(first, second)
           /\ \A pixel \in MarkerPixels : Cardinality(HutsAtPixel(pixel[1], pixel[2])) <= 1

\* after a pan below the maximum zoom one owner has a group of two huts and another a
\* group of one
C27_Witness ==
    /\ _zoom(tiles) < navmap._max_zoom
    /\ navmap.call.op = "update_center_point"
    /\ \E first, second \in DOMAIN navmap._huts_data :
           Len(GroupOf(first)) = 2 /\ Len(GroupOf(second)) = 1


----------------------------------------------------------------------------
\* the number of requests among the first k events of the batch
FetchesBefore(k) == Cardinality({i \in 1..(k - 1) : thread.events[i].type = "fetch"})

\* the order of the events of the batch of the worker
EventsInOrder ==
    LET events == thread.events
        outstanding == Len(thread.huts_list)
        IsFetch(event) == event.type = "fetch"
        fetches == SelectSeq(events, IsFetch)
    IN  /\ Len(fetches) <= outstanding
        /\ \A i \in 1..Len(fetches) : fetches[i].value = thread.huts_list[i]
        /\ \A k \in 1..Len(events) :
               events[k].type = "fetch" =>
                   k > 1 /\ events[k - 1] = Observer(outstanding - FetchesBefore(k))
        /\ events # << >> => events[1] = Observer(outstanding)
        /\ \A i, j \in 1..Len(events) :
               (i < j /\ events[i].type = "observer" /\ events[j].type = "observer")
                   => events[i].value >= events[j].value
        /\ \A k \in 1..Len(events) :
               events[k].type = "merge" =>
                   k = Len(events) /\ k > 1 /\ events[k - 1] = Observer(0)
        /\ thread.pc = "final" <=> (events # << >> /\ events[Len(events)].type = "merge")

\* C25: in a batch the worker requests the huts in the order of the list, one at a
\* time; the results dictionary is not modified while the loop runs; after the loop the
\* results are merged once; the observer is called with the number of outstanding
\* requests (not increasing, starting at the length of the list) before each request
\* and with 0 before the merge; the final observer runs only after the merge.
C25_EventOrder ==
    /\ []EventsInOrder
    /\ [][thread.pc \in {"loop", "fetch"} =>
             model'.results_dictionary = model.results_dictionary]_vars
    /\ [][model'.results_dictionary # model.results_dictionary =>
             (thread.pc = "update" /\ thread'.pc = "final")]_vars
    /\ [][(thread.pc # "idle" /\ thread'.pc = "idle") => thread.pc = "final"]_vars

\* a batch of two huts has been requested and merged, and the merge changed the results
C25_Witness ==
    /\ thread.pc = "final"
    /\ thread.events = <<Observer(2), Fetch(1), Observer(1), Fetch(2), Observer(0), Merge>>
    /\ DOMAIN model.results_dictionary = {1, 2}


----------------------------------------------------------------------------
(* The threads of the controller.  command_update_results and                    *)
(* command_search_for_updates test the retrieve flag and start a thread; the      *)
(* final observer of a batch, _update_gui_after_retrieve, runs in the thread of   *)
(* the batch: it enables the retrieve and then recreates the lists of the model,  *)
(* one read and one assignment of an attribute at a time, while the main thread   *)
(* executes commands.                                                             *)

MaxWorkers == 2

\* a thread started by _get_results_for_date
NewWorker(huts_list, start_date) ==
    [kind |-> "huts", pc |-> "loop", huts_list |-> huts_list, done |-> 0,
     results |-> EmptyDict, start_date |-> start_date, local |-> << >>]

\* a thread started by web_request.search_for_updates
NewUpdatesThread ==
    [kind |-> "updates", pc |-> "search", huts_list |-> << >>, done |-> 0,
     results |-> EmptyDict, start_date |-> 0, local |-> << >>]

\* command_update_results without the test of the retrieve flag
command_update_results_no_test(m, p, huts_list) ==
    [model |-> [enable_retrieve(m, FALSE) EXCEPT !.results_cancelled = FALSE],
     pool |-> Append(p, NewWorker(huts_list, m.request_date))]

\* Controller.command_update_results with update_results_for_indexes and
\* _get_results_for_date
command_update_results(m, p, huts_list) ==
    IF ~m.retrieve_enabled THEN [model |-> m, pool |-> p]
    ELSE [model |-> [enable_retrieve(m, FALSE) EXCEPT !.results_cancelled = FALSE],
          pool |-> Append(p, NewWorker(huts_list, m.request_date))]

\* Controller.command_search_for_updates
command_search_for_updates(m, p) ==
    IF ~m.retrieve_enabled THEN [model |-> m, pool |-> p]
    ELSE [model |-> enable_retrieve(m, FALSE), pool |-> Append(p, NewUpdatesThread)]

\* the pool without its i-th thread
Without(p, i) == SubSeq(p, 1, i - 1) \o SubSeq(p, i + 1, Len(p))

\* one step of _update_gui_after_retrieve after enable_retrieve(True): the statements
\* of get_all_data_after_retrieve in the thread w, each read of the attributes and
\* each assignment being a step
refresh_step(m, w) ==
    CASE w.pc = "display_all" ->
             [model |-> _display_all(m), worker |-> [w EXCEPT !.pc = "filter_displayed"]]
      [] w.pc = "filter_displayed" ->
             [model |-> m,
              worker |-> [w EXCEPT !.pc = "set_displayed",
                                   !.local = _apply_all_filters(m, m.displayed, m.filter_displayed_keys)]]
      [] w.pc = "set_displayed" ->
             [model |-> [m EXCEPT !.displayed = w.local],
              worker |-> [w EXCEPT !.pc = "sort_displayed", !.local = << >>]]
      [] w.pc = "sort_displayed" ->
             [model |-> m,
              worker |-> [w EXCEPT !.pc = "set_sorted_displayed",
                                   !.local = sort_displayed(m).displayed]]
      [] w.pc = "set_sorted_displayed" ->
             [model |-> [m EXCEPT !.displayed = w.local],
              worker |-> [w EXCEPT !.pc = "filter_selected", !.local = << >>]]
      [] w.pc = "filter_selected" ->
             [model |-> m,
              worker |-> [w EXCEPT !.pc = "set_selected",
                                   !.local = _apply_all_filters(m, m.all_selected, m.filter_selected_keys)]]
      [] w.pc = "set_selected" ->
             [model |-> [m EXCEPT !.selected = w.local],
              worker |-> [w EXCEPT !.pc = "sort_selected", !.local = << >>]]
      [] w.pc = "sort_selected" ->
             [model |-> m,
              worker |-> [w EXCEPT !.pc = "set_sorted_selected",
                                   !.local = sort_selected(m).selected]]
      [] w.pc = "set_sorted_selected" ->
             [model |-> [m EXCEPT !.selected = w.local],
              worker |-> [w EXCEPT !.pc = "end", !.local = << >>]]

RefreshPositions ==
    {"display_all", "filter_displayed", "set_displayed", "sort_displayed", "set_sorted_displayed",
     "filter_selected", "set_selected", "sort_selected", "set_sorted_selected"}

\* command_update_results, which = 'huts'
CommandUpdateResultsOfHuts(indexes) ==
    /\ Command
    /\ Len(pool) < MaxWorkers
    /\ clock + Len(indexes) <= MaxClock
    /\ LET r == command_update_results(model, pool, indexes)
       IN  model' = r.model /\ pool' = r.pool
    /\ UNCHANGED <<thread, clock, hut_info, loader, tiles, navmap>>

CommandSearchForUpdates ==
    /\ Command
    /\ Len(pool) < MaxWorkers
    /\ LET r == command_search_for_updates(model, pool)
       IN  model' = r.model /\ pool' = r.pool
    /\ UNCHANGED <<thread, clock, hut_info, loader, tiles, navmap>>

\* an iteration of the loop of _perform_web_request in the i-th thread
PoolRequest(i, result) ==
    /\ i \in 1..Len(pool)
    /\ pool[i].kind = "huts" /\ pool[i].pc = "loop"
    /\ pool[i].done < Len(pool[i].huts_list)
    /\ ~model.results_cancelled
    /\ LET index == pool[i].huts_list[pool[i].done + 1]
       IN  pool' = [pool EXCEPT ![i].results = (index :> result) @@ @, ![i].done = @ + 1]
    /\ clock' = clock + 1
    /\ UNCHANGED <<model, thread, ncommands, hut_info, loader, tiles, navmap>>

\* the end of the loop and _update_results_dictionary(results)
PoolUpdate(i) ==
    /\ i \in 1..Len(pool)
    /\ pool[i].kind = "huts" /\ pool[i].pc = "loop"
    /\ pool[i].done = Len(pool[i].huts_list) \/ model.results_cancelled
    /\ model' = [model EXCEPT !.results_dictionary =
                    _update_results_dictionary(model.results_dictionary, pool[i].results)]
    /\ pool' = [pool EXCEPT ![i].pc = "final"]
    /\ UNCHANGED <<thread, clock, ncommands, hut_info, loader, tiles, navmap>>

\* _update_gui_after_retrieve: enable_retrieve(True)
PoolEnable(i) ==
    /\ i \in 1..Len(pool)
    /\ pool[i].pc = "final"
    /\ model' = enable_retrieve(model, TRUE)
    /\ pool' = [pool EXCEPT ![i].pc = "display_all"]
    /\ UNCHANGED <<thread, clock, ncommands, hut_info, loader, tiles, navmap>>

\* _update_gui_after_retrieve: a step of get_all_data_after_retrieve
PoolRefresh(i) ==
    /\ i \in 1..Len(pool)
    /\ pool[i].pc \in RefreshPositions
    /\ LET r == refresh_step(model, pool[i])
       IN  model' = r.model /\ pool' = [pool EXCEPT ![i] = r.worker]
    /\ UNCHANGED <<thread, clock, ncommands, hut_info, loader, tiles, navmap>>

\* the end of a thread
PoolEnd(i) ==
    /\ i \in 1..Len(pool)
    /\ pool[i].pc = "end"
    /\ pool' = Without(pool, i)
    /\ UNCHANGED <<model, thread, clock, ncommands, hut_info, loader, tiles, navmap>>

\* _perform_update_request ends with _update_gui_after_updates, which posts the event
\* of the end of the search to the main thread
PoolPostAfterUpdates(i) ==
    /\ i \in 1..Len(pool)
    /\ pool[i].kind = "updates" /\ pool[i].pc = "search"
    /\ pool' = [pool EXCEPT ![i].pc = "posted"]
    /\ UNCHANGED <<model, thread, clock, ncommands, hut_info, loader, tiles, navmap>>

\* command_open_update_dialog, in the main thread, without new data files:
\* enable_retrieve(True)
CommandOpenUpdateDialog(i) ==
    /\ i \in 1..Len(pool)
    /\ pool[i].kind = "updates" /\ pool[i].pc = "posted"
    /\ model' = enable_retrieve(model, TRUE)
    /\ pool' = Without(pool, i)
    /\ UNCHANGED <<thread, clock, ncommands, hut_info, loader, tiles, navmap>>

PoolFilters == {<<"country", ValueParameters(1)>>, <<"open", NoParameters>>}

PoolResults ==
    UNION {WebResults({"shared" :> 1, Closed}, {None}, {}, start_date, clock) :
              start_date \in {pool[i].start_date : i \in 1..Len(pool)}}

NextPool ==
    \/ CommandUpdateResultsOfHuts(<<1>>)
    \/ CommandSearchForUpdates
    \/ \E f \in PoolFilters : FilterDisplayedBy(f[1], f[2])
    \/ SortDisplayedBy("name")
    \/ AddToSelected(1)
    \/ RemoveFromSelected(1)
    \/ \E i \in 1..Len(pool), result \in PoolResults :
           result.requested_dates = BookDates(pool[i].start_date) /\ PoolRequest(i, result)
    \/ \E i \in 1..Len(pool) : PoolUpdate(i)
    \/ \E i \in 1..Len(pool) : PoolEnable(i)
    \/ \E i \in 1..Len(pool) : PoolRefresh(i)
    \/ \E i \in 1..Len(pool) : PoolEnd(i)
    \/ \E i \in 1..Len(pool) : PoolPostAfterUpdates(i)
    \/ \E i \in 1..Len(pool) : CommandOpenUpdateDialog(i)

SpecPool == Init /\ [][NextPool]_vars


----------------------------------------------------------------------------
\* the threads of the pool that have not yet enabled the retrieve again: a batch
\* between its start and the end of its merge or about to run its final observer, a
\* search for updates up to its command_open_update_dialog
HoldingRetrieve == {i \in 1..Len(pool) : pool[i].pc \in {"loop", "final", "search", "posted"}}

\* C28: for every interleaving of command_update_results and command_search_for_updates
\* with the running threads at most one thread is between its start and the end of its
\* merge, so that no two batches request or merge at the same time, and a command
\* issued while the retrieve flag is False starts no thread and changes no state.
C28_MutualExclusion ==
    /\ [](Cardinality(HoldingRetrieve) <= 1)
    /\ [](HoldingRetrieve # {} => ~model.retrieve_enabled)
    /\ [][(/\ ~model.retrieve_enabled
           /\ CommandUpdateResultsOfHuts(<<1>>) \/ CommandSearchForUpdates)
          => (model' = model /\ pool' = pool)]_vars
    /\ [][Len(pool') > Len(pool) => model.retrieve_enabled /\ ~model'.retrieve_enabled]_vars

\* a second batch is requesting while the thread of the first one, which has merged and
\* enabled the retrieve, is still recreating the lists
C28_Witness ==
    /\ Len(pool) = 2
    /\ pool[1].kind = "huts" /\ pool[1].pc \in RefreshPositions
    /\ pool[2].kind = "huts" /\ pool[2].pc = "loop" /\ pool[2].done = 1
    /\ 1 \in DOMAIN model.results_dictionary


----------------------------------------------------------------------------
\* every displayed hut passes every active filter of the displayed huts, and every
\* selected hut is one of all_selected and passes every active filter of the selected
PassActiveFilters ==
    /\ Range(model.displayed) \subseteq
           Range(_apply_all_filters(model, HutIds, model.filter_displayed_keys))
    /\ Range(model.selected) \subseteq
           Range(_apply_all_filters(model, model.all_selected, model.filter_selected_keys))

\* C30: the refresh at the end of a batch runs in the thread of the batch; for every
\* interleaving of it with a filter_displayed_by, sort_displayed_by, add_to_selected or
\* remove_from_selected call of the main thread the final state is one that the two
\* operations produce in some sequential order: in particular, when no thread is left,
\* displayed passes every filter that is active, and selected is within all_selected.
C30_RefreshRaceFree == pool = << >> => PassActiveFilters

----------------------------------------------------------------------------
(* Specification of the catalog: the model is constructed from the catalog and   *)
(* the saved preferences, and the catalog is loaded again after an update        *)

\* the loop "for s in selected: if s in self._huts_dictionary:
\* self._all_selected.append(s)" of __init__ and reload_huts_data
AppendIfInCatalog(selected, huts) == SelectSeq(selected, LAMBDA s : In(s, huts))

\* HutsModel.__init__: huts are the keys of the catalog that _load_huts_dictionary
\* read, selected is config.SELECTED (None when the preferences hold no selection)
HutsModel__init__(huts, selected) ==
    LET m1 == [InitModel EXCEPT !.huts = huts, !.displayed = << >>]
        m2 == IF IsNone(selected) THEN m1
              ELSE [m1 EXCEPT !.all_selected = AppendIfInCatalog(Val(selected), huts)]
    IN  _display_all(_display_all_selected(m2))

\* reload_huts_data appending every hut that was selected, in the catalog or not
reload_huts_data_keeping_selected(m, huts) ==
    LET m1 == [m EXCEPT !.huts = huts]
        selected == Copy(m1.all_selected)
        m2 == clear_selected(m1)
    IN  get_all_data_after_retrieve([m2 EXCEPT !.all_selected = selected])

\* huts: the keys of the catalog that _load_huts_dictionary reads after the update
reload_huts_data(m, huts) ==
    LET m1 == [m EXCEPT !.huts = huts]
        selected == Copy(m1.all_selected)
        m2 == clear_selected(m1)
    IN  get_all_data_after_retrieve(
            [m2 EXCEPT !.all_selected = AppendIfInCatalog(selected, huts)])

\* command_open_update_dialog -> reload_huts_data
ReloadHutsData(huts) ==
    /\ Command
    /\ model' = reload_huts_data(model, huts)
    /\ UNCHANGED <<thread, clock, hut_info, loader, tiles, navmap, pool>>

\* the catalogs of the installation
InstalledCatalogs == {<<1, 2, 3>>, <<1, 2>>}

\* the catalogs of an update: huts are removed, added again or listed in another order
UpdatedCatalogs == InstalledCatalogs \cup {<<3, 2>>, <<3>>}

\* config.SELECTED: no saved selection, or the all_selected list of the session that
\* saved the preferences, whose catalog held a hut that the catalog no longer holds
SavedSelected ==
    {NoValue, Some(<< >>), Some(<<2, 1>>), Some(<<3, UnknownHut>>), Some(<<1, 2, 3>>)}

InitCatalog ==
    /\ \E huts \in InstalledCatalogs, selected \in SavedSelected :
           model = HutsModel__init__(huts, selected)
    /\ thread = IdleThread
    /\ clock = 0
    /\ ncommands = 0
    /\ hut_info = NoHutInfo
    /\ loader = NoFile
    /\ tiles = NoCluster
    /\ navmap = NoMap
    /\ pool = << >>

NextCatalog ==
    \/ \E index \in Range(HutIds) : AddToSelected(index)
    \/ \E index \in Range(HutIds) : RemoveFromSelected(index)
    \/ SelectAll
    \/ ClearSelected
    \/ \E f \in SelectFilters : FilterDisplayedBy(f[1], f[2])
    \/ \E f \in SelectFilters : FilterSelectedBy(f[1], f[2])
    \/ SortDisplayedBy("name")
    \/ SortSelectedBy("name")
    \/ \E huts \in UpdatedCatalogs : ReloadHutsData(huts)

SpecCatalog == InitCatalog /\ [][NextCatalog]_vars

NoIdTwice(list) == \A i, j \in 1..Len(list) : list[i] = list[j] => i = j

ListsWithinCatalog ==
    /\ Range(model.selected) \subseteq Range(model.all_selected)
    /\ Range(model.all_selected) \subseteq Range(model.huts)
    /\ Range(model.displayed) \subseteq Range(model.huts)
    /\ NoIdTwice(model.selected)
    /\ NoIdTwice(model.all_selected)
    /\ NoIdTwice(model.displayed)

DisplayedPipelineStep ==
    \/ \E f \in SelectFilters : FilterDisplayedBy(f[1], f[2])
    \/ SortDisplayedBy("name")

SelectedPipeline ==
    <<model.all_selected, model.selected, model.filter_selected_keys,
      model.sort_selected_key, model.sort_selected_ascending>>

----------------------------------------------------------------------------
(* The closed status after the merges of the retrieval                           *)

\* the lists that request_dates can be: number_days dates from request_date
RequestDateLists ==
    {[i \in 1..number_days |-> request_date + (i - 1) * _DAY_DELTA] :
        request_date \in FirstDates, number_days \in 1..MaxNights}

\* the stored places of one of the dates hold the closed sentinel
ClosedSentinelStored(index, dates) ==
    /\ index \in DOMAIN model.results_dictionary
    /\ \E i \in 1..Len(dates) :
           /\ dates[i] \in DOMAIN model.results_dictionary[index].places
           /\ "closed" \in DOMAIN model.results_dictionary[index].places[dates[i]]

ReportedClosed(index, dates) == _get_hut_info_for_dates(model, index, dates).status = CLOSED

RemovedByOpenFilter(index, dates) == ~In(index, _filter_by_open(model, <<index>>, dates))

\* C29: after every sequence of merges of retrieved results, with or without an error,
\* for overlapping or disjoint windows of dates, a hut has the status CLOSED for a list
\* of request dates, and is removed by the open filter, only if the stored places of at
\* least one of those dates hold the closed sentinel.
C29_ClosedOnlyWithSentinel ==
    \A index \in Range(HutIds), dates \in RequestDateLists :
        (ReportedClosed(index, dates) \/ RemovedByOpenFilter(index, dates))
            => ClosedSentinelStored(index, dates)

====
